---- MODULE Spec2Model ----
(***************************************************************************)
(* Verification model of auth-for-agents: the approval rule engine         *)
(* (src/lib/approval/rule-engine.ts), the approval ledger                  *)
(* (src/lib/approval/approval-manager.ts) and the HTTP handlers that       *)
(* drive them (gmail/send, approvals/request, approvals/:id/approve,       *)
(* approvals/:id/reject, approvals/:id/status).                            *)
(*                                                                         *)
(* JavaScript strings are sequences of one-character strings, so that      *)
(* includes / startsWith / endsWith / toLowerCase / split are computed     *)
(* and not assumed.  JSON documents are tagged records.                    *)
(***************************************************************************)
EXTENDS Integers, Sequences, FiniteSets, TLC

VARIABLES
    now,                \* the clock (Date.now()): one unit is an hour in the ledger
                        \* specifications, a minute in the others
    pending_approvals,  \* table pending_approvals; a row's id is its position
    approval_history,   \* table approval_history, in insertion order
    sent,               \* the emails handed to gmailAdapter.sendEmail, in order
    pc,                 \* where each in-flight request stands in its handler
    call,               \* each request's arguments and locals, then its response
    sweep,              \* the expireOldApprovals job: its position and expiredIds
    approval_rules,     \* table approval_rules, in storage order
    evalCall,        \* arguments of one evaluateRules(ownerId, context) call
    evalResult,      \* <<what that call observed and returned>>, or NotCalled
    patCall,         \* arguments of one matchesPayloadPattern(payload, pattern) call
    patResult,       \* <<its return value>>, or NotCalled before the call
    agents,               \* table agents; a row's id is its position
    service_connections,  \* table service_connections, in insertion order
    connection_requests   \* table connection_requests; a row's id is its position

ledgerVars == <<now, pending_approvals, approval_history, sent, pc, call, sweep>>
probeVars == <<evalCall, evalResult, patCall, patResult>>
storeVars == <<agents, service_connections, connection_requests>>
restVars == <<evalCall, evalResult, patCall, patResult,
              agents, service_connections, connection_requests>>
vars == <<now, pending_approvals, approval_history, sent, pc, call, sweep,
          approval_rules, evalCall, evalResult, patCall, patResult,
          agents, service_connections, connection_requests>>

NotCalled == <<>>

(***************************************************************************)
(* String literals used by the program and by the inputs of the model.     *)
(***************************************************************************)
\* the string literals of the program
Text ==
    [at_gmail |->
        <<"@", "g", "m", "a", "i", "l", ".", "c", "o", "m">>,
     at_googlemail |->
        <<"@", "g", "o", "o", "g", "l", "e", "m", "a", "i", "l", ".", "c", "o", "m">>,
     to |->
        <<"t", "o">>,
     cc |->
        <<"c", "c">>,
     subject |->
        <<"s", "u", "b", "j", "e", "c", "t">>,
     body |->
        <<"b", "o", "d", "y">>,
     gmail_send |->
        <<"g", "m", "a", "i", "l", ".", "s", "e", "n", "d">>,
     gmail_modify |->
        <<"g", "m", "a", "i", "l", ".", "m", "o", "d", "i", "f", "y">>,
     gmail_read |->
        <<"g", "m", "a", "i", "l", ".", "r", "e", "a", "d">>,
     gmail_delete |->
        <<"g", "m", "a", "i", "l", ".", "d", "e", "l", "e", "t", "e">>,
     inbox_read_delete |->
        <<"i", "n", "b", "o", "x", ".", "r", "e", "a", "d", "_", "d", "e", "l", "e", "t", "e">>,
     calendar_create |->
        <<"c", "a", "l", "e", "n", "d", "a", "r", ".", "c", "r", "e", "a", "t", "e">>,
     document_download |->
        <<"d", "o", "c", "u", "m", "e", "n", "t", ".", "d", "o", "w", "n", "l", "o", "a", "d">>,
     modify |->
        <<"m", "o", "d", "i", "f", "y">>,
     delete |->
        <<"d", "e", "l", "e", "t", "e">>,
     read |->
        <<"r", "e", "a", "d">>,
     query |->
        <<"q", "u", "e", "r", "y">>,
     object_Object |->
        <<"[", "o", "b", "j", "e", "c", "t", " ", "O", "b", "j", "e", "c", "t", "]">>,
     function_text |->
        <<"f", "u", "n", "c", "t", "i", "o", "n", " ", "t", "o", "S", "t", "r", "i", "n", "g", "(", ")", " ", "{", " ", "[", "n", "a", "t", "i", "v", "e", " ", "c", "o", "d", "e", "]", " ", "}">>,
     empty |->
        <<>>,
     bcc |->
        <<"b", "c", "c">>,
     undefined |->
        <<"u", "n", "d", "e", "f", "i", "n", "e", "d">>,
     null |->
        <<"n", "u", "l", "l">>,
     all |->
        <<"a", "l", "l">>,
     message_id |->
        <<"m", "e", "s", "s", "a", "g", "e", "_", "i", "d">>,
     operation |->
        <<"o", "p", "e", "r", "a", "t", "i", "o", "n">>,
     document_id |->
        <<"d", "o", "c", "u", "m", "e", "n", "t", "_", "i", "d">>,
     Send_email_to |->
        <<"S", "e", "n", "d", " ", "e", "m", "a", "i", "l", " ", "t", "o", " ">>,
     with_subject |->
        <<" ", "w", "i", "t", "h", " ", "s", "u", "b", "j", "e", "c", "t", " ", "\"">>,
     quote |->
        <<"\"">>,
     Modify_email |->
        <<"M", "o", "d", "i", "f", "y", " ", "e", "m", "a", "i", "l", " ">>,
     colon |->
        <<":", " ">>,
     Read_emails_matching |->
        <<"R", "e", "a", "d", " ", "e", "m", "a", "i", "l", "s", " ", "m", "a", "t", "c", "h", "i", "n", "g", ":", " ">>,
     document_query |->
        <<"d", "o", "c", "u", "m", "e", "n", "t", ".", "q", "u", "e", "r", "y">>,
     Query_document |->
        <<"Q", "u", "e", "r", "y", " ", "d", "o", "c", "u", "m", "e", "n", "t", " ", "\"">>,
     with |->
        <<"\"", " ", "w", "i", "t", "h", ":", " ">>,
     Download_document |->
        <<"D", "o", "w", "n", "l", "o", "a", "d", " ", "d", "o", "c", "u", "m", "e", "n", "t", " ", "\"">>,
     Perform_action |->
        <<"P", "e", "r", "f", "o", "r", "m", " ", "a", "c", "t", "i", "o", "n", ":", " ">>]

\* the strings of the requests, payloads and patterns of the model
Sample ==
    [client_external |->
        <<"c", "l", "i", "e", "n", "t", "@", "e", "x", "t", "e", "r", "n", "a", "l", ".", "c", "o", "m">>,
     user_external |->
        <<"u", "s", "e", "r", "@", "e", "x", "t", "e", "r", "n", "a", "l", ".", "c", "o", "m">>,
     user_myexternal |->
        <<"u", "s", "e", "r", "@", "m", "y", "e", "x", "t", "e", "r", "n", "a", "l", ".", "c", "o", "m">>,
     contact_bigcompany |->
        <<"c", "o", "n", "t", "a", "c", "t", "@", "b", "i", "g", "c", "o", "m", "p", "a", "n", "y", ".", "c", "o", "m">>,
     person_gmail |->
        <<"p", "e", "r", "s", "o", "n", "@", "g", "m", "a", "i", "l", ".", "c", "o", "m">>,
     me_googlemail |->
        <<"m", "e", "@", "g", "o", "o", "g", "l", "e", "m", "a", "i", "l", ".", "c", "o", "m">>,
     client_EXTERNAL |->
        <<"c", "l", "i", "e", "n", "t", "@", "E", "X", "T", "E", "R", "N", "A", "L", ".", "c", "o", "m">>,
     at_external |->
        <<"@", "e", "x", "t", "e", "r", "n", "a", "l", ".", "c", "o", "m">>,
     at_EXTERNAL |->
        <<"@", "E", "X", "T", "E", "R", "N", "A", "L", ".", "c", "o", "m">>,
     length |->
        <<"l", "e", "n", "g", "t", "h">>,
     toString |->
        <<"t", "o", "S", "t", "r", "i", "n", "g">>,
     to_length |->
        <<"t", "o", ".", "l", "e", "n", "g", "t", "h">>,
     to_0 |->
        <<"t", "o", ".", "0">>,
     to_x |->
        <<"t", "o", ".", "x">>,
     user |->
        <<"u", "s", "e", "r">>,
     email |->
        <<"e", "m", "a", "i", "l">>,
     user_email |->
        <<"u", "s", "e", "r", ".", "e", "m", "a", "i", "l">>,
     Test |->
        <<"T", "e", "s", "t">>,
     n19 |->
        <<"1", "9">>,
     c |->
        <<"c">>,
     paren |->
        <<"(", "e", "x">>,
     at_myexternal |->
        <<"@", "m", "y", "e", "x", "t", "e", "r", "n", "a", "l", ".", "c", "o", "m">>,
     at_bigcompany |->
        <<"@", "b", "i", "g", "c", "o", "m", "p", "a", "n", "y", ".", "c", "o", "m">>]

(***************************************************************************)
(* JavaScript string primitives.                                           *)
(***************************************************************************)
UpperCaseLetters ==
    <<"A", "B", "C", "D", "E", "F", "G", "H", "I", "J", "K", "L", "M",
      "N", "O", "P", "Q", "R", "S", "T", "U", "V", "W", "X", "Y", "Z">>
LowerCaseLetters ==
    <<"a", "b", "c", "d", "e", "f", "g", "h", "i", "j", "k", "l", "m",
      "n", "o", "p", "q", "r", "s", "t", "u", "v", "w", "x", "y", "z">>
DecimalDigits ==
    <<"0", "1", "2", "3", "4", "5", "6", "7", "8", "9">>

\* String.prototype.toLowerCase on one character
toLowerChar(c) ==
    IF \E i \in DOMAIN UpperCaseLetters : UpperCaseLetters[i] = c
    THEN LowerCaseLetters[CHOOSE i \in DOMAIN UpperCaseLetters : UpperCaseLetters[i] = c]
    ELSE c

\* a toLowerCase that leaves the string as it is
toLowerCaseKeepingCase(s) == s

\* String.prototype.toLowerCase
toLowerCase(s) == [i \in 1..Len(s) |-> toLowerChar(s[i])]

\* String.prototype.includes
includes(s, t) ==
    \E i \in 0..(Len(s) - Len(t)) : SubSeq(s, i + 1, i + Len(t)) = t

\* String.prototype.startsWith
startsWith(s, t) ==
    Len(t) <= Len(s) /\ SubSeq(s, 1, Len(t)) = t

\* String.prototype.endsWith
endsWith(s, t) ==
    Len(t) <= Len(s) /\ SubSeq(s, Len(s) - Len(t) + 1, Len(s)) = t

\* String.prototype.split('.')
RECURSIVE splitDot(_)
splitDot(s) ==
    LET dots == {i \in 1..Len(s) : s[i] = "."} IN
    IF dots = {} THEN <<s>>
    ELSE LET i == CHOOSE d \in dots : \A e \in dots : d <= e IN
         <<SubSeq(s, 1, i - 1)>> \o splitDot(SubSeq(s, i + 1, Len(s)))

\* decimal text of a natural number (Number.prototype.toString)
RECURSIVE decimalText(_)
decimalText(n) ==
    IF n < 10 THEN <<DecimalDigits[n + 1]>>
    ELSE decimalText(n \div 10) \o <<DecimalDigits[(n % 10) + 1]>>

(***************************************************************************)
(* The restricted RegExp the model covers: a source of literal characters  *)
(* and "." (any one character), unanchored; a source with an unmatched     *)
(* "(" is rejected by the RegExp constructor (SyntaxError).                *)
(***************************************************************************)
RegExpThrows(source) ==
    \E i \in 1..Len(source) : source[i] = "("

RegExpTest(source, ignoreCase, s) ==
    LET src == IF ignoreCase THEN toLowerCase(source) ELSE source
        str == IF ignoreCase THEN toLowerCase(s) ELSE s
    IN \E i \in 0..(Len(str) - Len(src)) :
          \A j \in 1..Len(src) : src[j] = "." \/ src[j] = str[i + j]

(***************************************************************************)
(* JSON / JavaScript values (the `any` of action_payload).                 *)
(***************************************************************************)
Undefined == [kind |-> "undefined"]
Null == [kind |-> "null"]
Func == [kind |-> "function"]
Str(s) == [kind |-> "string", str |-> s]
Num(n) == [kind |-> "number", num |-> n]
Obj(f) == [kind |-> "object", fields |-> f]

\* members every value inherits from Object.prototype; toString stands for them
InheritedNames == {Sample.toString}

IsArrayIndex(key) ==
    /\ Len(key) >= 1
    /\ \A i \in 1..Len(key) : \E d \in DOMAIN DecimalDigits : DecimalDigits[d] = key[i]
    /\ (Len(key) > 1 => key[1] # "0")

RECURSIVE indexValue(_)
indexValue(key) ==
    IF key = <<>> THEN 0
    ELSE 10 * indexValue(SubSeq(key, 1, Len(key) - 1))
         + (CHOOSE d \in DOMAIN DecimalDigits : DecimalDigits[d] = key[Len(key)]) - 1

\* the JavaScript member access current[part]
getProperty(current, part) ==
    CASE current.kind = "object" ->
            IF part \in DOMAIN current.fields THEN current.fields[part]
            ELSE IF part \in InheritedNames THEN Func ELSE Undefined
      [] current.kind = "string" ->
            IF part = Sample.length THEN Num(Len(current.str))
            ELSE IF IsArrayIndex(part) /\ indexValue(part) < Len(current.str)
                 THEN Str(<<current.str[indexValue(part) + 1]>>)
            ELSE IF part \in InheritedNames THEN Func ELSE Undefined
      [] current.kind = "function" ->
            IF part = Sample.length THEN Num(0)
            ELSE IF part \in InheritedNames THEN Func ELSE Undefined
      [] OTHER ->
            IF part \in InheritedNames THEN Func ELSE Undefined

\* String(value), also the conversion a template literal applies
String(value) ==
    CASE value.kind = "string" -> value.str
      [] value.kind = "number" -> decimalText(value.num)
      [] value.kind = "function" -> Text.function_text
      [] value.kind = "undefined" -> Text.undefined
      [] value.kind = "null" -> Text.null
      [] OTHER -> Text.object_Object

(***************************************************************************)
(* rule-engine.ts                                                          *)
(***************************************************************************)
RECURSIVE walkParts(_, _)
walkParts(current, parts) ==
    IF parts = <<>> THEN current
    ELSE IF current = Undefined \/ current = Null THEN Undefined
    ELSE walkParts(getProperty(current, Head(parts)), Tail(parts))

getFieldValue(obj, path) == walkParts(obj, splitDot(path))

Operators == {"equals", "not_equals", "contains", "starts_with", "ends_with", "matches"}

\* matchesPayloadPattern answering true when the RegExp constructor throws
matchesPayloadPatternInvalidMatches(payload, pattern) ==
    LET value == getFieldValue(payload, pattern.field) IN
    IF value = Undefined \/ value = Null THEN FALSE
    ELSE
      LET stringValue == String(value)
          sv == IF pattern.case_sensitive THEN stringValue ELSE toLowerCase(stringValue)
          pv == IF pattern.case_sensitive THEN pattern.value ELSE toLowerCase(pattern.value)
      IN CASE pattern.operator = "equals" -> sv = pv
           [] pattern.operator = "not_equals" -> sv # pv
           [] pattern.operator = "contains" -> includes(sv, pv)
           [] pattern.operator = "starts_with" -> startsWith(sv, pv)
           [] pattern.operator = "ends_with" -> endsWith(sv, pv)
           [] pattern.operator = "matches" ->
                IF RegExpThrows(pv) THEN TRUE
                ELSE RegExpTest(pv, ~pattern.case_sensitive, stringValue)
           [] OTHER -> FALSE

matchesPayloadPattern(payload, pattern) ==
    LET value == getFieldValue(payload, pattern.field) IN
    IF value = Undefined \/ value = Null THEN FALSE
    ELSE
      LET stringValue == String(value)
          sv == IF pattern.case_sensitive THEN stringValue ELSE toLowerCase(stringValue)
          pv == IF pattern.case_sensitive THEN pattern.value ELSE toLowerCase(pattern.value)
      IN CASE pattern.operator = "equals" -> sv = pv
           [] pattern.operator = "not_equals" -> sv # pv
           [] pattern.operator = "contains" -> includes(sv, pv)
           [] pattern.operator = "starts_with" -> startsWith(sv, pv)
           [] pattern.operator = "ends_with" -> endsWith(sv, pv)
           [] pattern.operator = "matches" ->
                IF RegExpThrows(pv) THEN FALSE
                ELSE RegExpTest(pv, ~pattern.case_sensitive, stringValue)
           [] OTHER -> FALSE

\* Array.prototype.includes
arrayIncludes(list, x) == \E i \in 1..Len(list) : list[i] = x

\* context.service_provider_id when the request carries none
NoProvider == ""

\* doesRuleMatch without its service_provider_ids filter
doesRuleMatchAnyProvider(rule, context) ==
    LET conditions == rule.conditions IN
    /\ (Len(conditions.agent_ids) > 0
          => arrayIncludes(conditions.agent_ids, context.agent_id))
    /\ (Len(conditions.action_types) > 0
          => arrayIncludes(conditions.action_types, context.action_type))
    /\ \A i \in 1..Len(conditions.payload_patterns) :
          matchesPayloadPattern(context.action_payload, conditions.payload_patterns[i])

\* doesRuleMatch(rule, context); a list that is missing is the empty list
doesRuleMatch(rule, context) ==
    LET conditions == rule.conditions IN
    /\ (Len(conditions.agent_ids) > 0
          => arrayIncludes(conditions.agent_ids, context.agent_id))
    /\ (Len(conditions.action_types) > 0
          => arrayIncludes(conditions.action_types, context.action_type))
    /\ (Len(conditions.service_provider_ids) > 0
          => /\ context.service_provider_id # NoProvider
             /\ arrayIncludes(conditions.service_provider_ids, context.service_provider_id))
    /\ \A i \in 1..Len(conditions.payload_patterns) :
          matchesPayloadPattern(context.action_payload, conditions.payload_patterns[i])

\* approval_rules.agent_id IS NULL
NullAgent == "null"

\* ORDER BY priority DESC, created_at DESC: ties go to the newest rule
OrderedBeforeNewestFirst(q, r) ==
    \/ q.priority > r.priority
    \/ q.priority = r.priority /\ q.created_at > r.created_at

\* ORDER BY priority DESC, created_at ASC
OrderedBefore(q, r) ==
    \/ q.priority > r.priority
    \/ q.priority = r.priority /\ q.created_at < r.created_at

\* the query without its ORDER BY: the rows in storage order
SelectActiveRulesUnordered(table, ownerId, agentId) ==
    SelectSeq(table, LAMBDA r : /\ r.owner_id = ownerId
                                /\ r.is_active
                                /\ r.agent_id \in {NullAgent, agentId})

\* the query of evaluateRules: the rows it selects, in the order it asks for
SelectActiveRules(table, ownerId, agentId) ==
    LET rows == {table[i] : i \in {j \in 1..Len(table) :
                    /\ table[j].owner_id = ownerId
                    /\ table[j].is_active
                    /\ table[j].agent_id \in {NullAgent, agentId}}}
    IN [i \in 1..Cardinality(rows) |->
          CHOOSE r \in rows : Cardinality({q \in rows : OrderedBefore(q, r)}) = i - 1]

\* matchedRule: null
NoRule == <<>>

\* evaluateRules failing closed: approval required when nothing matches
evaluateRulesFailClosed(rules, error, context) ==
    LET hits == {i \in 1..Len(rules) : doesRuleMatch(rules[i], context)} IN
    IF error \/ hits = {}
    THEN [threw |-> FALSE, requiresApproval |-> TRUE, matchedRule |-> NoRule]
    ELSE LET first == CHOOSE i \in hits : \A j \in hits : i <= j IN
         [threw |-> FALSE,
          requiresApproval |-> rules[first].require_approval,
          matchedRule |-> <<rules[first]>>]

\* evaluateRules after its query answered {data: rules, error}
evaluateRules(rules, error, context) ==
    IF error \/ Len(rules) = 0
    THEN [threw |-> FALSE, requiresApproval |-> FALSE, matchedRule |-> NoRule]
    ELSE LET hits == {i \in 1..Len(rules) : doesRuleMatch(rules[i], context)} IN
         IF hits = {}
         THEN [threw |-> FALSE, requiresApproval |-> FALSE, matchedRule |-> NoRule]
         ELSE LET first == CHOOSE i \in hits : \A j \in hits : i <= j IN
              [threw |-> FALSE,
               requiresApproval |-> rules[first].require_approval,
               matchedRule |-> <<rules[first]>>]

(***************************************************************************)
(* Inputs of the pattern specification.                                    *)
(***************************************************************************)
EmailPayload(to) ==
    Obj((Text.to :> Str(to)) @@ (Text.subject :> Str(Sample.Test)) @@ (Text.body :> Str(Sample.Test)))

PatternPayloads ==
    { EmailPayload(Sample.client_external),
      EmailPayload(Sample.user_myexternal),
      EmailPayload(Sample.client_EXTERNAL),
      EmailPayload(Sample.person_gmail),
      Obj((Text.to :> Null) @@ (Sample.user :> Obj(Sample.email :> Str(Sample.client_external)))),
      Obj(Text.subject :> Str(Sample.Test)) }

PatternFields ==
    {Text.to, Text.cc, Sample.to_length, Sample.to_0, Sample.to_x, Sample.user, Sample.user_email, Sample.toString, Text.empty}

PatternValues ==
    {Sample.at_external, Sample.at_EXTERNAL, Sample.client_external, Sample.n19, Sample.c, Sample.paren}

Patterns ==
    [field : PatternFields, operator : Operators, value : PatternValues,
     case_sensitive : BOOLEAN]

\* request slots: two dashboard sessions and one agent client
Humans == {"h1", "h2"}
Callers == {"g1"}
Procs == Humans \cup Callers

\* the tables of agents and connections before any row is inserted
StoreEmpty ==
    /\ agents = <<>>
    /\ service_connections = <<>>
    /\ connection_requests = <<>>

LedgerIdle ==
    /\ now = 0
    /\ pending_approvals = <<>>
    /\ approval_history = <<>>
    /\ sent = <<>>
    /\ pc = [p \in Procs |-> "idle"]
    /\ call = [p \in Procs |-> NotCalled]
    /\ sweep = [pc |-> "idle", expiredIds |-> {}, returned |-> NotCalled]

RulesIdle ==
    /\ approval_rules = <<>>
    /\ evalCall = NotCalled
    /\ evalResult = NotCalled

PatternIdle ==
    /\ patCall = NotCalled
    /\ patResult = NotCalled

InitPattern ==
    /\ patCall \in [payload : PatternPayloads, pattern : Patterns]
    /\ patResult = NotCalled
    /\ RulesIdle
    /\ LedgerIdle
    /\ StoreEmpty

MatchPattern ==
    /\ patCall # NotCalled
    /\ patResult = NotCalled
    /\ patResult' = <<matchesPayloadPattern(patCall.payload, patCall.pattern)>>
    /\ UNCHANGED <<approval_rules, evalCall, evalResult, patCall>>
    /\ UNCHANGED ledgerVars
    /\ UNCHANGED storeVars

NextPattern == MatchPattern

SpecPattern == InitPattern /\ [][NextPattern]_vars

(***************************************************************************)
(* Statements about pattern matching                                       *)
(***************************************************************************)
\* one character is the other, or its upper-case or lower-case form
SameLetter(c, d) ==
    \/ c = d
    \/ \E i \in DOMAIN UpperCaseLetters :
          {c, d} = {UpperCaseLetters[i], LowerCaseLetters[i]}

\* two strings that differ only in letter case
SameUpToCase(s, t) ==
    /\ Len(s) = Len(t)
    /\ \A i \in 1..Len(s) : SameLetter(s[i], t[i])

TextOperators == {"equals", "not_equals", "contains", "starts_with", "ends_with"}

\* the comparison an operator stands for, on the strings as given
Compare(operator, s, t) ==
    CASE operator = "equals" -> s = t
      [] operator = "not_equals" -> s # t
      [] operator = "contains" -> includes(s, t)
      [] operator = "starts_with" -> startsWith(s, t)
      [] operator = "ends_with" -> endsWith(s, t)

\* the field's value is present in the payload
Present(payload, field) ==
    getFieldValue(payload, field) \notin {Undefined, Null}

\* C24: for equals, not_equals, contains, starts_with and ends_with, a
\* pattern that is not case_sensitive gives the same result on every payload
\* whose field value differs from this one only in letter case and with every
\* pattern value that differs from this one only in letter case; a
\* case_sensitive pattern compares the strings exactly as given.
C24_CaseInsensitiveByDefault ==
    (/\ patResult # NotCalled
     /\ patCall.pattern.operator \in TextOperators
     /\ Present(patCall.payload, patCall.pattern.field)) =>
        LET pattern == patCall.pattern
            text == String(getFieldValue(patCall.payload, pattern.field))
        IN
        IF pattern.case_sensitive
        THEN patResult[1] = Compare(pattern.operator, text, pattern.value)
        ELSE \A payload \in PatternPayloads, value \in PatternValues :
                (/\ Present(payload, pattern.field)
                 /\ SameUpToCase(String(getFieldValue(payload, pattern.field)), text)
                 /\ SameUpToCase(value, pattern.value)) =>
                    matchesPayloadPattern(payload, [pattern EXCEPT !.value = value])
                       = patResult[1]

\* `to contains "@external.com"` matched client@EXTERNAL.com
C24_Witness ==
    /\ patResult = <<TRUE>>
    /\ patCall.payload = EmailPayload(Sample.client_EXTERNAL)
    /\ patCall.pattern = [field |-> Text.to, operator |-> "contains",
                          value |-> Sample.at_external, case_sensitive |-> FALSE]

(***************************************************************************)
(* Inputs of the rule-evaluation specification: every table of at most     *)
(* MaxRules rules, stored in any order relative to their creation.         *)
(***************************************************************************)
MaxRules == 2

Agents == {"a1", "a2"}

\* each agent's owner_id
OwnerOf(agent) == "u1"

NoConditions ==
    [agent_ids |-> <<>>, action_types |-> <<>>, service_provider_ids |-> <<>>,
     payload_patterns |-> <<>>]

ToContainsExternal ==
    [field |-> Text.to, operator |-> "contains", value |-> Sample.at_external,
     case_sensitive |-> FALSE]

ExternalSendConditions ==
    [agent_ids |-> <<>>, action_types |-> <<Text.gmail_send>>, service_provider_ids |-> <<>>,
     payload_patterns |-> <<ToContainsExternal>>]

\* auto_approve_after_hours: <<>> is NULL, <<n>> is n
NoHours == <<>>

RuleKinds ==
    { [owner_id |-> "u1", agent_id |-> NullAgent, is_active |-> TRUE,
       conditions |-> NoConditions],
      [owner_id |-> "u1", agent_id |-> NullAgent, is_active |-> TRUE,
       conditions |-> ExternalSendConditions],
      [owner_id |-> "u1", agent_id |-> NullAgent, is_active |-> FALSE,
       conditions |-> NoConditions],
      [owner_id |-> "u2", agent_id |-> NullAgent, is_active |-> TRUE,
       conditions |-> NoConditions],
      [owner_id |-> "u1", agent_id |-> "a2", is_active |-> TRUE,
       conditions |-> NoConditions] }

RuleRow(id, kind, priority, require_approval, hours, created_at) ==
    [id |-> id, owner_id |-> kind.owner_id, agent_id |-> kind.agent_id,
     is_active |-> kind.is_active, priority |-> priority,
     conditions |-> kind.conditions, require_approval |-> require_approval,
     auto_approve_after_hours |-> hours, created_at |-> created_at]

\* the orders in which n rows can have been created
CreationOrders(n) ==
    {f \in [1..n -> 1..n] : \A i, j \in 1..n : i # j => f[i] # f[j]}

\* what the owner chose for each rule
RuleChoices == [kind : RuleKinds, priority : {5, 10}, require_approval : BOOLEAN]

RuleTable(n, pick, created) ==
    [i \in 1..n |-> RuleRow(i, pick[i].kind, pick[i].priority,
                            pick[i].require_approval, NoHours, created[i])]

EvalContexts ==
    [agent_id : Agents, action_type : {Text.gmail_send},
     action_payload : {EmailPayload(Sample.user_external), EmailPayload(Sample.user_myexternal),
                       EmailPayload(Sample.contact_bigcompany), EmailPayload(Sample.person_gmail)},
     service_provider_id : {"gmail"}]

InitRules ==
    /\ \E n \in 0..MaxRules :
          \E pick \in [1..n -> RuleChoices], created \in CreationOrders(n) :
              approval_rules = RuleTable(n, pick, created)
    /\ evalCall \in [ownerId : {"u1"}, context : EvalContexts]
    /\ evalResult = NotCalled
    /\ PatternIdle
    /\ LedgerIdle
    /\ StoreEmpty

\* one call of evaluateRules; the read of approval_rules succeeds or fails
EvaluateRules(error) ==
    /\ evalCall # NotCalled
    /\ evalResult = NotCalled
    /\ LET rules == SelectActiveRules(approval_rules, evalCall.ownerId,
                                      evalCall.context.agent_id)
       IN evalResult' = <<[error |-> error,
                           returned |-> evaluateRules(rules, error, evalCall.context)]>>
    /\ UNCHANGED <<approval_rules, evalCall, patCall, patResult>>
    /\ UNCHANGED ledgerVars
    /\ UNCHANGED storeVars

NextRules == \E error \in BOOLEAN : EvaluateRules(error)

SpecRules == InitRules /\ [][NextRules]_vars

(***************************************************************************)
(* The rule-matching specification: one active rule of the owner with      *)
(* every combination of filters, evaluated for requests with and without   *)
(* a provider id.                                                          *)
(***************************************************************************)
SubjectIsTest ==
    [field |-> Text.subject, operator |-> "equals", value |-> Sample.Test,
     case_sensitive |-> TRUE]

MatchConditions ==
    [agent_ids : {<<>>, <<"a1">>, <<"a2", "a1">>},
     action_types : {<<>>, <<Text.gmail_send>>, <<Text.gmail_read, Text.gmail_modify>>},
     service_provider_ids : {<<>>, <<"gmail">>, <<"drive", "gmail">>},
     payload_patterns : {<<>>, <<ToContainsExternal>>, <<SubjectIsTest, ToContainsExternal>>}]

MatchContexts ==
    [agent_id : {"a1", "a3"},
     action_type : {Text.gmail_send, Text.gmail_modify},
     action_payload : {EmailPayload(Sample.user_external), EmailPayload(Sample.person_gmail)},
     service_provider_id : {"gmail", "calendar", NoProvider}]

InitMatch ==
    /\ \E conditions \in MatchConditions :
          approval_rules =
              <<RuleRow(1, [owner_id |-> "u1", agent_id |-> NullAgent, is_active |-> TRUE,
                            conditions |-> conditions], 10, TRUE, NoHours, 1)>>
    /\ evalCall \in [ownerId : {"u1"}, context : MatchContexts]
    /\ evalResult = NotCalled
    /\ PatternIdle
    /\ LedgerIdle
    /\ StoreEmpty

SpecMatch == InitMatch /\ [][NextRules]_vars

(***************************************************************************)
(* The malformed-rule specification: a rule whose `matches` pattern is no  *)
(* regular expression, alone or with a second rule before or after it.     *)
(***************************************************************************)
ToMatchesMalformed(case_sensitive) ==
    [field |-> Text.to, operator |-> "matches", value |-> Sample.paren,
     case_sensitive |-> case_sensitive]

MalformedKinds ==
    {[owner_id |-> "u1", agent_id |-> NullAgent, is_active |-> TRUE,
      conditions |-> [NoConditions EXCEPT
                         !.payload_patterns = <<ToMatchesMalformed(case_sensitive)>>]] :
        case_sensitive \in BOOLEAN}

InitMalformed ==
    /\ \E n \in 1..MaxRules :
          \E pick \in [1..n -> RuleChoices], created \in CreationOrders(n),
             malformed \in MalformedKinds :
              approval_rules =
                  [RuleTable(n, pick, created) EXCEPT
                      ![1] = RuleRow(1, malformed, pick[1].priority,
                                     pick[1].require_approval, NoHours, created[1])]
    /\ evalCall \in [ownerId : {"u1"}, context : EvalContexts]
    /\ evalResult = NotCalled
    /\ PatternIdle
    /\ LedgerIdle
    /\ StoreEmpty

SpecMalformed == InitMalformed /\ [][NextRules]_vars

(***************************************************************************)
(* Statements about the rule engine.                                       *)
(***************************************************************************)
\* the active rules of the caller's owner, in scope for the calling agent,
\* whose conditions match the evaluated action
MatchingRules ==
    {r \in {approval_rules[i] : i \in 1..Len(approval_rules)} :
        /\ r.owner_id = evalCall.ownerId
        /\ r.is_active
        /\ r.agent_id \in {NullAgent, evalCall.context.agent_id}
        /\ doesRuleMatch(r, evalCall.context)}

\* C6: when the read succeeds, evaluateRules returns the matching rule that
\* precedes every other matching rule in (priority descending, created_at
\* ascending) order, with that rule's require_approval; and null/false when
\* no rule matches.
C6_FirstMatchWins ==
    (evalResult # NotCalled /\ ~evalResult[1].error) =>
        LET ret == evalResult[1].returned IN
        IF MatchingRules = {}
        THEN ret.matchedRule = NoRule /\ ret.requiresApproval = FALSE
        ELSE \E m \in MatchingRules :
                /\ ret.matchedRule = <<m>>
                /\ ret.requiresApproval = m.require_approval
                /\ \A q \in MatchingRules \ {m} :
                      \/ m.priority > q.priority
                      \/ m.priority = q.priority /\ m.created_at < q.created_at

\* C6 witness: two rules match, the higher-priority one is stored after the
\* other and disagrees with it, and it is the one returned
C6_Witness ==
    /\ evalResult # NotCalled
    /\ ~evalResult[1].error
    /\ \E a, b \in MatchingRules :
          /\ a.priority > b.priority
          /\ a.require_approval # b.require_approval
          /\ a.id > b.id
          /\ evalResult[1].returned.matchedRule = <<a>>
          /\ evalResult[1].returned.requiresApproval = a.require_approval

\* the table with its rows stored in another order
Restored(table, order) == [i \in DOMAIN table |-> table[order[i]]]

\* C23: the rules evaluateRules walks are the in-scope rules, each once, in
\* (priority descending, created_at ascending) order; of two matching rules
\* of equal priority the later-created one is never returned; and the answer
\* is the same for every order in which the rows may be stored.
C23_TiesGoToEarliestRule ==
    (evalResult # NotCalled /\ ~evalResult[1].error) =>
        LET ret == evalResult[1].returned
            rules == SelectActiveRules(approval_rules, evalCall.ownerId,
                                       evalCall.context.agent_id)
        IN
        /\ \A i, j \in DOMAIN rules : i < j => OrderedBefore(rules[i], rules[j])
        /\ \A i, j \in DOMAIN rules :
              i # j => OrderedBefore(rules[i], rules[j]) \/ OrderedBefore(rules[j], rules[i])
        /\ {rules[i] : i \in DOMAIN rules} =
              {r \in {approval_rules[i] : i \in DOMAIN approval_rules} :
                  /\ r.owner_id = evalCall.ownerId
                  /\ r.is_active
                  /\ r.agent_id \in {NullAgent, evalCall.context.agent_id}}
        /\ \A a, b \in MatchingRules :
              (a.priority = b.priority /\ a.created_at < b.created_at) =>
                  ret.matchedRule # <<b>>
        /\ \A order \in CreationOrders(Len(approval_rules)) :
              evaluateRules(SelectActiveRules(Restored(approval_rules, order),
                                              evalCall.ownerId, evalCall.context.agent_id),
                            FALSE, evalCall.context) = ret

\* two matching rules of equal priority disagree, the one created first is
\* stored last, and it is the one returned
C23_Witness ==
    /\ evalResult # NotCalled
    /\ ~evalResult[1].error
    /\ \E a, b \in MatchingRules :
          /\ a.priority = b.priority
          /\ a.created_at < b.created_at
          /\ a.id > b.id
          /\ a.require_approval # b.require_approval
          /\ evalResult[1].returned.matchedRule = <<a>>
          /\ evalResult[1].returned.requiresApproval = a.require_approval

\* the members of a list
Members(list) == {list[i] : i \in 1..Len(list)}

\* C30: a rule matches exactly when its agent-id list is empty or contains
\* the requesting agent, its action-type list is empty or contains the action
\* type, its provider list is empty or the request carries a provider id the
\* list contains, and every one of its payload patterns matches; so a rule
\* with a non-empty provider list never matches a request without provider id.
C30_FiltersAreConjunctive ==
    (/\ evalResult # NotCalled
     /\ ~evalResult[1].error
     /\ Len(approval_rules) = 1
     /\ approval_rules[1].owner_id = evalCall.ownerId
     /\ approval_rules[1].is_active
     /\ approval_rules[1].agent_id = NullAgent) =>
        LET conditions == approval_rules[1].conditions
            context == evalCall.context
            matched == evalResult[1].returned.matchedRule = <<approval_rules[1]>>
        IN
        /\ matched <=>
              /\ conditions.agent_ids = <<>>
                    \/ context.agent_id \in Members(conditions.agent_ids)
              /\ conditions.action_types = <<>>
                    \/ context.action_type \in Members(conditions.action_types)
              /\ conditions.service_provider_ids = <<>>
                    \/ /\ context.service_provider_id # NoProvider
                       /\ context.service_provider_id \in Members(conditions.service_provider_ids)
              /\ \A pattern \in Members(conditions.payload_patterns) :
                    matchesPayloadPattern(context.action_payload, pattern)
        /\ ~matched => evalResult[1].returned.matchedRule = NoRule
        /\ (conditions.service_provider_ids # <<>> /\ context.service_provider_id = NoProvider)
              => ~matched

\* a rule with all four filters matched a request
C30_Witness ==
    /\ evalResult # NotCalled
    /\ ~evalResult[1].error
    /\ Len(approval_rules) = 1
    /\ approval_rules[1].conditions =
          [agent_ids |-> <<"a2", "a1">>, action_types |-> <<Text.gmail_send>>,
           service_provider_ids |-> <<"drive", "gmail">>,
           payload_patterns |-> <<SubjectIsTest, ToContainsExternal>>]
    /\ evalResult[1].returned.matchedRule = <<approval_rules[1]>>

\* the rule has a `matches` pattern the RegExp constructor rejects
Malformed(rule) ==
    \E i \in DOMAIN rule.conditions.payload_patterns :
        LET pattern == rule.conditions.payload_patterns[i] IN
        /\ pattern.operator = "matches"
        /\ RegExpThrows(pattern.value)

WellFormedRules(rules) == SelectSeq(rules, LAMBDA rule : ~Malformed(rule))

\* C31: evaluateRules completes without an error, never returns a rule with a
\* malformed `matches` pattern, and answers what it would answer were the
\* malformed rules not there: the rules after one are still evaluated.
C31_MalformedPatternIsNonMatch ==
    (evalResult # NotCalled /\ ~evalResult[1].error) =>
        LET ret == evalResult[1].returned
            rules == SelectActiveRules(approval_rules, evalCall.ownerId,
                                       evalCall.context.agent_id)
        IN
        /\ ~ret.threw
        /\ ret.matchedRule # NoRule => ~Malformed(ret.matchedRule[1])
        /\ ret = evaluateRules(WellFormedRules(rules), FALSE, evalCall.context)

\* a malformed rule that would let the action through comes first, and the
\* matching rule after it requires approval
C31_Witness ==
    /\ evalResult # NotCalled
    /\ ~evalResult[1].error
    /\ Len(approval_rules) >= 2
    /\ Malformed(approval_rules[1])
    /\ ~approval_rules[1].require_approval
    /\ approval_rules[1].priority > approval_rules[2].priority
    /\ approval_rules[2].conditions = ExternalSendConditions
    /\ evalResult[1].returned.matchedRule = <<approval_rules[2]>>
    /\ evalResult[1].returned.requiresApproval

\* C8: a failed read of approval_rules is reported to the caller as a
\* failure, never answered with requiresApproval = false
C8_ReadFailureReported ==
    (evalResult # NotCalled /\ evalResult[1].error) =>
        /\ evalResult[1].returned.threw
        /\ evalResult[1].returned.requiresApproval # FALSE

\* C10: under the single rule `to contains "@external.com"` a gmail.send
\* requires approval for recipients at external.com and at myexternal.com,
\* and none for recipients at bigcompany.com or gmail.com
C10_ExternalDomains ==
    ( /\ evalResult # NotCalled
      /\ ~evalResult[1].error
      /\ Len(approval_rules) = 1
      /\ approval_rules[1].owner_id = evalCall.ownerId
      /\ approval_rules[1].is_active
      /\ approval_rules[1].agent_id = NullAgent
      /\ approval_rules[1].require_approval
      /\ approval_rules[1].conditions = ExternalSendConditions ) =>
        LET to == evalCall.context.action_payload.fields[Text.to].str
            required == evalResult[1].returned.requiresApproval
        IN /\ (endsWith(to, Sample.at_external) \/ endsWith(to, Sample.at_myexternal)) => required
           /\ (endsWith(to, Sample.at_bigcompany) \/ endsWith(to, Text.at_gmail)) => ~required

(***************************************************************************)
(* Statements about payload patterns.                                      *)
(***************************************************************************)
\* the path names a field the document has: every segment is an own key of a
\* nested object
RECURSIVE PathPresent(_, _)
PathPresent(doc, parts) ==
    \/ parts = <<>>
    \/ /\ doc.kind = "object"
       /\ Head(parts) \in DOMAIN doc.fields
       /\ PathPresent(doc.fields[Head(parts)], Tail(parts))

\* C9: a pattern whose path reaches an absent segment, or a value that is
\* not a nested structure before the last segment, matches under no operator
C9_AbsentNeverMatches ==
    (patResult # NotCalled /\ ~PathPresent(patCall.payload, splitDot(patCall.pattern.field)))
        => patResult = <<FALSE>>

(***************************************************************************)
(* approval-manager.ts: the statements it sends to the store.  Each        *)
(* statement is one atomic step of the database.                           *)
(***************************************************************************)
MaxApprovals == 1
MaxSent == 1
MaxTime == 2

DefaultExpiryHours == 24

\* the request carries no approval_id
NoApprovalId == 0
\* an id no row of pending_approvals has
UnknownId == MaxApprovals + 1

NoRow == <<>>
NullUser == "null"
NullComment == "null"
NoComment == ""
NullTime == <<>>

\* `payload.query || 'all'`
queryOrAll(payload) ==
    LET query == getProperty(payload, Text.query) IN
    IF query = Undefined \/ query = Null \/ query = Str(Text.empty) THEN Text.all
    ELSE String(query)

\* generateActionSummary(actionType, payload)
generateActionSummary(actionType, payload) ==
    CASE actionType = Text.gmail_send ->
            Text.Send_email_to \o String(getProperty(payload, Text.to)) \o Text.with_subject
                \o String(getProperty(payload, Text.subject)) \o Text.quote
      [] actionType = Text.gmail_modify ->
            Text.Modify_email \o String(getProperty(payload, Text.message_id)) \o Text.colon
                \o String(getProperty(payload, Text.operation))
      [] actionType = Text.gmail_read ->
            Text.Read_emails_matching \o queryOrAll(payload)
      [] actionType = Text.document_query ->
            Text.Query_document \o String(getProperty(payload, Text.document_id)) \o Text.with
                \o String(getProperty(payload, Text.query))
      [] actionType = Text.document_download ->
            Text.Download_document \o String(getProperty(payload, Text.document_id)) \o Text.quote
      [] OTHER -> Text.Perform_action \o actionType

\* determinePriority with the gmail.send test inverted
determinePriorityInverted(actionType, payload) ==
    IF actionType = Text.gmail_send
    THEN LET to == getProperty(payload, Text.to)
             recipient == IF to.kind = "string" THEN to.str ELSE Text.empty
         IN IF includes(recipient, Text.at_gmail) \/ includes(recipient, Text.at_googlemail)
            THEN "high" ELSE "medium"
    ELSE "medium"

\* determinePriority testing read/query before modify/delete
determinePriorityReadFirst(actionType, payload) ==
    IF actionType = Text.gmail_send
    THEN LET to == getProperty(payload, Text.to)
             recipient == IF to.kind = "string" THEN to.str ELSE Text.empty
         IN IF includes(recipient, Text.at_gmail) \/ includes(recipient, Text.at_googlemail)
            THEN "medium" ELSE "high"
    ELSE IF includes(actionType, Text.read) \/ includes(actionType, Text.query) THEN "low"
    ELSE IF includes(actionType, Text.modify) \/ includes(actionType, Text.delete) THEN "high"
    ELSE "medium"

\* determinePriority(actionType, payload)
determinePriority(actionType, payload) ==
    IF actionType = Text.gmail_send
    THEN LET to == getProperty(payload, Text.to)
             recipient == IF to.kind = "string" THEN to.str ELSE Text.empty
         IN IF includes(recipient, Text.at_gmail) \/ includes(recipient, Text.at_googlemail)
            THEN "medium" ELSE "high"
    ELSE IF includes(actionType, Text.modify) \/ includes(actionType, Text.delete) THEN "high"
    ELSE IF actionType = Text.document_download THEN "medium"
    ELSE IF includes(actionType, Text.read) \/ includes(actionType, Text.query) THEN "low"
    ELSE "medium"

\* `matchedRule?.auto_approve_after_hours || 24`, then `params.expires_in_hours || 24`
expiresInHours(matchedRule) ==
    IF matchedRule = NoRule THEN DefaultExpiryHours
    ELSE IF matchedRule[1].auto_approve_after_hours = NoHours THEN DefaultExpiryHours
    ELSE IF matchedRule[1].auto_approve_after_hours[1] = 0 THEN DefaultExpiryHours
    ELSE matchedRule[1].auto_approve_after_hours[1]

\* the row createApproval inserts
createApprovalRow(id, params, t) ==
    [id |-> id,
     agent_id |-> params.agent_id,
     owner_id |-> params.owner_id,
     rule_id |-> params.rule_id,
     action_type |-> params.action_type,
     action_payload |-> params.action_payload,
     action_summary |-> generateActionSummary(params.action_type, params.action_payload),
     status |-> "pending",
     priority |-> determinePriority(params.action_type, params.action_payload),
     resolved_by |-> NullUser,
     resolved_at |-> NullTime,
     resolution_comment |-> NullComment,
     expires_at |-> t + params.expires_in_hours,
     created_at |-> t]

\* approveApproval's UPDATE without `AND status = 'pending'`
approveUpdateAnyStatus(table, approvalId, userId, comment, t) ==
    LET hit == {i \in DOMAIN table : i = approvalId} IN
    [rows |-> hit,
     table |-> [i \in DOMAIN table |->
        IF i \in hit
        THEN [table[i] EXCEPT !.status = "approved",
                              !.resolved_by = userId,
                              !.resolved_at = <<t>>,
                              !.resolution_comment =
                                  IF comment = NoComment THEN NullComment ELSE comment]
        ELSE table[i]]]

\* approveApproval's UPDATE ... WHERE id = approvalId AND status = 'pending':
\* the rows it matched and the table after it
approveUpdate(table, approvalId, userId, comment, t) ==
    LET hit == {i \in DOMAIN table : i = approvalId /\ table[i].status = "pending"} IN
    [rows |-> hit,
     table |-> [i \in DOMAIN table |->
        IF i \in hit
        THEN [table[i] EXCEPT !.status = "approved",
                              !.resolved_by = userId,
                              !.resolved_at = <<t>>,
                              !.resolution_comment =
                                  IF comment = NoComment THEN NullComment ELSE comment]
        ELSE table[i]]]

\* rejectApproval's UPDATE without `AND status = 'pending'`
rejectUpdateAnyStatus(table, approvalId, userId, reason, t) ==
    LET hit == {i \in DOMAIN table : i = approvalId} IN
    [rows |-> hit,
     table |-> [i \in DOMAIN table |->
        IF i \in hit
        THEN [table[i] EXCEPT !.status = "rejected",
                              !.resolved_by = userId,
                              !.resolved_at = <<t>>,
                              !.resolution_comment =
                                  IF reason = NoComment THEN NullComment ELSE reason]
        ELSE table[i]]]

\* rejectApproval's UPDATE ... WHERE id = approvalId AND status = 'pending'
rejectUpdate(table, approvalId, userId, reason, t) ==
    LET hit == {i \in DOMAIN table : i = approvalId /\ table[i].status = "pending"} IN
    [rows |-> hit,
     table |-> [i \in DOMAIN table |->
        IF i \in hit
        THEN [table[i] EXCEPT !.status = "rejected",
                              !.resolved_by = userId,
                              !.resolved_at = <<t>>,
                              !.resolution_comment =
                                  IF reason = NoComment THEN NullComment ELSE reason]
        ELSE table[i]]]

\* cancelApproval's UPDATE ... WHERE id = approvalId AND status = 'pending'
cancelUpdate(table, approvalId) ==
    [i \in DOMAIN table |->
        IF i = approvalId /\ table[i].status = "pending"
        THEN [table[i] EXCEPT !.status = "cancelled"]
        ELSE table[i]]

\* expireOldApprovals' SELECT finding an approval only a day after its expiry
expireSelectADayLate(table, t) ==
    {i \in DOMAIN table :
        table[i].status = "pending" /\ table[i].expires_at + DefaultExpiryHours < t}

\* expireOldApprovals' SELECT id WHERE status = 'pending' AND expires_at < now
expireSelect(table, t) ==
    {i \in DOMAIN table : table[i].status = "pending" /\ table[i].expires_at < t}

\* expireOldApprovals' UPDATE writing 'approved' in place of 'expired'
expireUpdateApproving(table, expiredIds) ==
    [i \in DOMAIN table |->
        IF i \in expiredIds THEN [table[i] EXCEPT !.status = "approved"] ELSE table[i]]

\* expireOldApprovals' UPDATE SET status = 'expired' WHERE id IN expiredIds
expireUpdate(table, expiredIds) ==
    [i \in DOMAIN table |->
        IF i \in expiredIds THEN [table[i] EXCEPT !.status = "expired"] ELSE table[i]]

\* getApprovalStatus: the row, or null
getApprovalStatus(table, approvalId) ==
    IF approvalId \in DOMAIN table THEN <<table[approvalId]>> ELSE NoRow

NoMetadata == <<>>

HistoryEntry(approvalId, userId, action, comment, metadata) ==
    [approval_id |-> approvalId, user_id |-> userId, action |-> action,
     comment |-> comment, metadata |-> metadata]

(***************************************************************************)
(* POST /api/approvals/:id/approve and /reject                             *)
(***************************************************************************)
\* the user signed in to each dashboard session, and the comment they type
SessionUser(p) == IF p = "h1" THEN "u1" ELSE "u2"
SessionComment(p) == IF p = "h1" THEN NoComment ELSE "ok"

\* the dashboard user posts an approve; the handler has parsed the request
ApproveCall(p, id, user, comment) ==
    /\ pc[p] = "idle"
    /\ pc' = [pc EXCEPT ![p] = "approve_update"]
    /\ call' = [call EXCEPT ![p] =
          [op |-> "approve", id |-> id, user |-> user, comment |-> comment,
           pendingAtCall |-> (id \in DOMAIN pending_approvals
                              /\ pending_approvals[id].status = "pending"),
           http |-> 0]]
    /\ UNCHANGED <<now, pending_approvals, approval_history, sent, sweep, approval_rules>>
    /\ UNCHANGED restVars

\* approveApproval lines 93-109: the conditional update; no row back is a throw
ApproveUpdate(p) ==
    /\ pc[p] = "approve_update"
    /\ LET u == approveUpdate(pending_approvals, call[p].id, call[p].user,
                              call[p].comment, now)
       IN /\ pending_approvals' = u.table
          /\ IF u.rows = {}
             THEN /\ pc' = [pc EXCEPT ![p] = "idle"]
                  /\ call' = [call EXCEPT ![p].http = 500]
             ELSE /\ pc' = [pc EXCEPT ![p] = "approve_history"]
                  /\ call' = call
    /\ UNCHANGED <<now, approval_history, sent, sweep, approval_rules>>
    /\ UNCHANGED restVars

\* approveApproval lines 111-119, then the route's 200
ApproveHistory(p) ==
    /\ pc[p] = "approve_history"
    /\ approval_history' = Append(approval_history,
          HistoryEntry(call[p].id, call[p].user, "approved", call[p].comment,
                       NoMetadata))
    /\ pc' = [pc EXCEPT ![p] = "idle"]
    /\ call' = [call EXCEPT ![p].http = 200]
    /\ UNCHANGED <<now, pending_approvals, sent, sweep, approval_rules>>
    /\ UNCHANGED restVars

RejectCall(p, id, user, reason) ==
    /\ pc[p] = "idle"
    /\ pc' = [pc EXCEPT ![p] = "reject_update"]
    /\ call' = [call EXCEPT ![p] =
          [op |-> "reject", id |-> id, user |-> user, comment |-> reason,
           pendingAtCall |-> (id \in DOMAIN pending_approvals
                              /\ pending_approvals[id].status = "pending"),
           http |-> 0]]
    /\ UNCHANGED <<now, pending_approvals, approval_history, sent, sweep, approval_rules>>
    /\ UNCHANGED restVars

\* rejectApproval lines 132-148
RejectUpdate(p) ==
    /\ pc[p] = "reject_update"
    /\ LET u == rejectUpdate(pending_approvals, call[p].id, call[p].user,
                             call[p].comment, now)
       IN /\ pending_approvals' = u.table
          /\ IF u.rows = {}
             THEN /\ pc' = [pc EXCEPT ![p] = "idle"]
                  /\ call' = [call EXCEPT ![p].http = 500]
             ELSE /\ pc' = [pc EXCEPT ![p] = "reject_history"]
                  /\ call' = call
    /\ UNCHANGED <<now, approval_history, sent, sweep, approval_rules>>
    /\ UNCHANGED restVars

\* rejectApproval lines 150-158, then the route's 200
RejectHistory(p) ==
    /\ pc[p] = "reject_history"
    /\ approval_history' = Append(approval_history,
          HistoryEntry(call[p].id, call[p].user, "rejected", call[p].comment,
                       NoMetadata))
    /\ pc' = [pc EXCEPT ![p] = "idle"]
    /\ call' = [call EXCEPT ![p].http = 200]
    /\ UNCHANGED <<now, pending_approvals, sent, sweep, approval_rules>>
    /\ UNCHANGED restVars

(***************************************************************************)
(* cancelApproval and expireOldApprovals                                   *)
(***************************************************************************)
\* cancelApproval: one statement; it throws only on a store error
CancelApproval(p, id) ==
    /\ pc[p] = "idle"
    /\ pending_approvals' = cancelUpdate(pending_approvals, id)
    /\ call' = [call EXCEPT ![p] =
          [op |-> "cancel", approval_id |-> id, http |-> 200, response |-> <<>>]]
    /\ UNCHANGED <<now, approval_history, sent, pc, sweep, approval_rules>>
    /\ UNCHANGED restVars

\* expireOldApprovals lines 206-217: nothing overdue returns 0
SweepSelect ==
    /\ sweep.pc = "idle"
    /\ LET ids == expireSelect(pending_approvals, now) IN
       sweep' = IF ids = {} THEN [pc |-> "idle", expiredIds |-> {}, returned |-> <<0>>]
                ELSE [pc |-> "update", expiredIds |-> ids, returned |-> NotCalled]
    /\ UNCHANGED <<now, pending_approvals, approval_history, sent, pc, call, approval_rules>>
    /\ UNCHANGED restVars

\* expireOldApprovals lines 219-230
SweepUpdate ==
    /\ sweep.pc = "update"
    /\ pending_approvals' = expireUpdate(pending_approvals, sweep.expiredIds)
    /\ sweep' = [pc |-> "idle", expiredIds |-> {},
                 returned |-> <<Cardinality(sweep.expiredIds)>>]
    /\ UNCHANGED <<now, approval_history, sent, pc, call, approval_rules>>
    /\ UNCHANGED restVars

\* expireOldApprovals lines 206-217 when the select answers with an error
SweepSelectFails ==
    /\ sweep.pc = "idle"
    /\ sweep' = [pc |-> "idle", expiredIds |-> {}, returned |-> <<0>>]
    /\ UNCHANGED <<now, pending_approvals, approval_history, sent, pc, call, approval_rules>>
    /\ UNCHANGED restVars

\* expireOldApprovals lines 219-228 when the update answers with an error
SweepUpdateFails ==
    /\ sweep.pc = "update"
    /\ sweep' = [pc |-> "idle", expiredIds |-> {}, returned |-> <<0>>]
    /\ UNCHANGED <<now, pending_approvals, approval_history, sent, pc, call, approval_rules>>
    /\ UNCHANGED restVars

Tick ==
    /\ now < MaxTime
    /\ now' = now + 1
    /\ UNCHANGED <<pending_approvals, approval_history, sent, pc, call, sweep, approval_rules>>
    /\ UNCHANGED restVars

(***************************************************************************)
(* POST /api/services/gmail/send, POST /api/approvals/request and          *)
(* GET /api/approvals/:id/status.  The calling agent is authenticated and  *)
(* holds an active Gmail connection.                                       *)
(***************************************************************************)

\* the emailData object built from a payload
emailOf(payload) ==
    [to |-> getProperty(payload, Text.to),
     subject |-> getProperty(payload, Text.subject),
     body |-> getProperty(payload, Text.body),
     cc |-> getProperty(payload, Text.cc),
     bcc |-> getProperty(payload, Text.bcc)]

Respond(http, response) ==
    [next |-> "respond", http |-> http, response |-> response]

\* `matchedRule?.id`, and the id in `matchedRule ? {id: matchedRule.id, ...} : null`
matchedRuleId(matchedRule) ==
    IF matchedRule = NoRule THEN <<>> ELSE <<matchedRule[1].id>>

\* createApproval's parameters as both routes build them
createParams(agent, actionType, payload, ret) ==
    [agent_id |-> agent,
     owner_id |-> OwnerOf(agent),
     rule_id |-> matchedRuleId(ret.matchedRule),
     action_type |-> actionType,
     action_payload |-> payload,
     expires_in_hours |-> expiresInHours(ret.matchedRule)]

\* gmail/send lines 55-113 without the final `status !== 'approved'` test
sendWithApprovalUnguarded(approval, agent) ==
    IF approval = NoRow
    THEN Respond(404, [error |-> "Approval not found"])
    ELSE IF approval[1].agent_id # agent
    THEN Respond(403, [error |-> "Approval does not belong to this agent"])
    ELSE IF approval[1].status = "pending"
    THEN Respond(200, [requires_approval |-> TRUE, approval_id |-> approval[1].id,
                       status |-> "pending"])
    ELSE IF approval[1].status = "rejected"
    THEN Respond(403, [error |-> "Approval was rejected",
                       reason |-> approval[1].resolution_comment])
    ELSE IF approval[1].status = "expired"
    THEN Respond(410, [error |-> "Approval has expired"])
    ELSE [next |-> "send_email", http |-> 0,
          locals |-> [approval |-> approval, evaluated |-> NotCalled,
                      emailData |-> emailOf(approval[1].action_payload)]]

\* gmail/send lines 55-113: the request carries an approval_id
sendWithApproval(approval, agent) ==
    IF approval = NoRow
    THEN Respond(404, [error |-> "Approval not found"])
    ELSE IF approval[1].agent_id # agent
    THEN Respond(403, [error |-> "Approval does not belong to this agent"])
    ELSE IF approval[1].status = "pending"
    THEN Respond(200, [requires_approval |-> TRUE, approval_id |-> approval[1].id,
                       status |-> "pending"])
    ELSE IF approval[1].status = "rejected"
    THEN Respond(403, [error |-> "Approval was rejected",
                       reason |-> approval[1].resolution_comment])
    ELSE IF approval[1].status = "expired"
    THEN Respond(410, [error |-> "Approval has expired"])
    ELSE IF approval[1].status # "approved"
    THEN Respond(400, [error |-> "Invalid approval status"])
    ELSE [next |-> "send_email", http |-> 0,
          locals |-> [approval |-> approval, evaluated |-> NotCalled,
                      emailData |-> emailOf(approval[1].action_payload)]]

\* gmail/send lines 114-156: no approval_id, the rules decide
sendWithoutApproval(rules, error, agent, to) ==
    LET actionPayload == EmailPayload(to)
        ret == evaluateRules(rules, error,
                  [agent_id |-> agent, action_type |-> Text.gmail_send,
                   action_payload |-> actionPayload, service_provider_id |-> "gmail"])
        evaluated == <<[error |-> error, returned |-> ret]>>
    IN IF ret.requiresApproval
       THEN [next |-> "create_insert", http |-> 0,
             locals |-> [params |-> createParams(agent, Text.gmail_send, actionPayload, ret),
                         evaluated |-> evaluated]]
       ELSE [next |-> "send_email", http |-> 0,
             locals |-> [approval |-> NoRow, evaluated |-> evaluated,
                         emailData |-> emailOf(actionPayload)]]

\* approvals/request lines 31-61
requestApproval(rules, error, agent, actionType, payload, provider) ==
    LET ret == evaluateRules(rules, error,
                  [agent_id |-> agent, action_type |-> actionType,
                   action_payload |-> payload, service_provider_id |-> provider])
        evaluated == <<[error |-> error, returned |-> ret]>>
    IN IF ~ret.requiresApproval
       THEN Respond(200, [requires_approval |-> FALSE,
                          matched_rule |-> matchedRuleId(ret.matchedRule)])
       ELSE [next |-> "create_insert", http |-> 0,
             locals |-> [params |-> createParams(agent, actionType, payload, ret),
                         evaluated |-> evaluated]]

\* approvals/:id/status lines 23-59
statusResponse(approval, agent, t) ==
    IF approval = NoRow
    THEN Respond(404, [error |-> "Approval not found"])
    ELSE IF approval[1].agent_id # agent
    THEN Respond(403, [error |-> "Unauthorized"])
    ELSE IF approval[1].status = "pending" /\ t > approval[1].expires_at
    THEN Respond(200, [status |-> "expired"])
    ELSE Respond(200, [approval_id |-> approval[1].id,
                       status |-> approval[1].status,
                       priority |-> approval[1].priority,
                       action_summary |-> approval[1].action_summary,
                       created_at |-> approval[1].created_at,
                       expires_at |-> approval[1].expires_at,
                       resolved_at |-> approval[1].resolved_at,
                       resolution_comment |-> approval[1].resolution_comment])

Recipients == {Sample.user_external, Sample.person_gmail}

\* rows and emails the requests in flight are about to add
InsertsInFlight == Cardinality({q \in Procs : pc[q] = "create_insert"})
SendsInFlight == Cardinality({q \in Procs : pc[q] = "send_email"})

\* a request moves to the step its handler chose, while the model holds fewer
\* than MaxApprovals rows and fewer than maxSent emails
ProceedWithin(p, request, d, maxSent) ==
    /\ d.next = "create_insert" => Len(pending_approvals) + InsertsInFlight < MaxApprovals
    /\ d.next = "send_email" => Len(sent) + SendsInFlight < maxSent
    /\ pc' = [pc EXCEPT ![p] = IF d.next = "respond" THEN "idle" ELSE d.next]
    /\ call' = [call EXCEPT ![p] =
          IF d.next = "respond"
          THEN [op |-> request.op, agent |-> request.agent,
                approval_id |-> request.approval_id,
                http |-> d.http, response |-> d.response]
          ELSE request @@ [http |-> d.http, locals |-> d.locals]]

Proceed(p, request, d) == ProceedWithin(p, request, d, MaxSent)

\* POST /api/services/gmail/send up to the point where it sends or holds
SendRouteWithin(p, agent, to, approvalId, error, maxSent) ==
    /\ pc[p] = "idle"
    /\ approvalId # NoApprovalId => ~error
    /\ ProceedWithin(p, [op |-> "send", agent |-> agent, to |-> to,
                         approval_id |-> approvalId],
          IF approvalId # NoApprovalId
          THEN sendWithApproval(getApprovalStatus(pending_approvals, approvalId), agent)
          ELSE sendWithoutApproval(
                  SelectActiveRules(approval_rules, OwnerOf(agent), agent),
                  error, agent, to),
          maxSent)
    /\ UNCHANGED <<now, pending_approvals, approval_history, sent, sweep, approval_rules>>
    /\ UNCHANGED restVars

SendRoute(p, agent, to, approvalId, error) ==
    SendRouteWithin(p, agent, to, approvalId, error, MaxSent)

\* POST /api/approvals/request up to the point where it answers or holds
RequestRoute(p, agent, actionType, to, error) ==
    /\ pc[p] = "idle"
    /\ Proceed(p, [op |-> "request", agent |-> agent, to |-> to,
                   approval_id |-> NoApprovalId],
          requestApproval(SelectActiveRules(approval_rules, OwnerOf(agent), agent),
                          error, agent, actionType, EmailPayload(to), "gmail"))
    /\ UNCHANGED <<now, pending_approvals, approval_history, sent, sweep, approval_rules>>
    /\ UNCHANGED restVars

\* createApproval lines 49-70: the insert
CreateInsert(p) ==
    /\ pc[p] = "create_insert"
    /\ LET row == createApprovalRow(Len(pending_approvals) + 1, call[p].locals.params, now)
       IN /\ pending_approvals' = Append(pending_approvals, row)
          /\ call' = [call EXCEPT ![p].locals =
                [approval |-> <<row>>, evaluated |-> call[p].locals.evaluated]]
    /\ pc' = [pc EXCEPT ![p] = "create_history"]
    /\ UNCHANGED <<now, approval_history, sent, sweep, approval_rules>>
    /\ UNCHANGED restVars

\* the route's requires_approval answer for the approval createApproval returned
heldAnswer(request) ==
    LET approval == request.locals.approval[1]
        answer == [requires_approval |-> TRUE,
                   approval_id |-> approval.id,
                   status |-> approval.status,
                   priority |-> approval.priority,
                   action_summary |-> approval.action_summary,
                   expires_at |-> approval.expires_at]
    IN [op |-> request.op, agent |-> request.agent,
        approval_id |-> request.approval_id, http |-> 200,
        response |->
           IF request.op = "request"
           THEN answer @@ [matched_rule |-> matchedRuleId(
                   request.locals.evaluated[1].returned.matchedRule)]
           ELSE answer]

\* the route's catch block for the Error createApproval throws
thrownAnswer(request) ==
    [op |-> request.op, agent |-> request.agent,
     approval_id |-> request.approval_id, http |-> 500,
     response |-> [error |-> IF request.op = "request" THEN "Internal server error"
                             ELSE "Failed to create approval"]]

\* createApproval lines 72-80, then the route's requires_approval answer
CreateHistory(p) ==
    /\ pc[p] = "create_history"
    /\ LET approval == call[p].locals.approval[1] IN
       /\ approval_history' = Append(approval_history,
             HistoryEntry(approval.id, approval.owner_id, "created", NoComment,
                          [priority |-> approval.priority,
                           expires_at |-> approval.expires_at]))
       /\ call' = [call EXCEPT ![p] = heldAnswer(call[p])]
    /\ pc' = [pc EXCEPT ![p] = "idle"]
    /\ UNCHANGED <<now, pending_approvals, sent, sweep, approval_rules>>
    /\ UNCHANGED restVars

\* createApproval lines 49-70 when the store answers the insert with an error
CreateInsertFails(p) ==
    /\ pc[p] = "create_insert"
    /\ call' = [call EXCEPT ![p] = thrownAnswer(call[p])]
    /\ pc' = [pc EXCEPT ![p] = "idle"]
    /\ UNCHANGED <<now, pending_approvals, approval_history, sent, sweep, approval_rules>>
    /\ UNCHANGED restVars

\* createApproval lines 72-80 when the store answers the history insert with
\* an error: the result is not looked at, the approval is returned
CreateHistoryFails(p) ==
    /\ pc[p] = "create_history"
    /\ call' = [call EXCEPT ![p] = heldAnswer(call[p])]
    /\ pc' = [pc EXCEPT ![p] = "idle"]
    /\ UNCHANGED <<now, pending_approvals, approval_history, sent, sweep, approval_rules>>
    /\ UNCHANGED restVars

\* lines 158-167 sending what the request itself carries
SendEmailAsRequested(p) ==
    /\ pc[p] = "send_email"
    /\ sent' = Append(sent, [agent_id |-> call[p].agent,
                             approval_id |-> call[p].approval_id,
                             email |-> emailOf(EmailPayload(call[p].to))])
    /\ call' = [call EXCEPT ![p] =
          [op |-> call[p].op, agent |-> call[p].agent,
           approval_id |-> call[p].approval_id, http |-> 200,
           response |-> [success |-> TRUE, approval_id |-> call[p].approval_id]]]
    /\ pc' = [pc EXCEPT ![p] = "idle"]
    /\ UNCHANGED <<now, pending_approvals, approval_history, sweep, approval_rules>>
    /\ UNCHANGED restVars

\* gmail/send lines 158-167: sendGmailEmail and the success answer
SendEmail(p) ==
    /\ pc[p] = "send_email"
    /\ sent' = Append(sent, [agent_id |-> call[p].agent,
                             approval_id |-> call[p].approval_id,
                             email |-> call[p].locals.emailData])
    /\ call' = [call EXCEPT ![p] =
          [op |-> call[p].op, agent |-> call[p].agent,
           approval_id |-> call[p].approval_id, http |-> 200,
           response |-> [success |-> TRUE, approval_id |-> call[p].approval_id]]]
    /\ pc' = [pc EXCEPT ![p] = "idle"]
    /\ UNCHANGED <<now, pending_approvals, approval_history, sweep, approval_rules>>
    /\ UNCHANGED restVars

\* GET /api/approvals/:id/status
StatusRoute(p, agent, id) ==
    /\ pc[p] = "idle"
    /\ Proceed(p, [op |-> "status", agent |-> agent, approval_id |-> id],
               statusResponse(getApprovalStatus(pending_approvals, id), agent, now))
    /\ UNCHANGED <<now, pending_approvals, approval_history, sent, sweep, approval_rules>>
    /\ UNCHANGED restVars

(***************************************************************************)
(* The ledger specification.                                               *)
(***************************************************************************)
\* the end-to-end rule: gmail.send to *@external.com needs approval
ScenarioRule ==
    RuleRow(1, [owner_id |-> "u1", agent_id |-> NullAgent, is_active |-> TRUE,
                conditions |-> ExternalSendConditions], 10, TRUE, NoHours, 1)

\* a lower-priority rule holding every action, with a one-hour window
HoldAllRule ==
    RuleRow(2, [owner_id |-> "u1", agent_id |-> NullAgent, is_active |-> TRUE,
                conditions |-> NoConditions], 5, TRUE, <<1>>, 2)

LedgerRuleTables == { <<>>, <<ScenarioRule>>, <<ScenarioRule, HoldAllRule>> }

\* the ids a caller can name: every row's, and one that names no row
CallIds == (1..Len(pending_approvals)) \cup {UnknownId}

Init ==
    /\ LedgerIdle
    /\ approval_rules \in LedgerRuleTables
    /\ evalCall = NotCalled
    /\ evalResult = NotCalled
    /\ PatternIdle
    /\ StoreEmpty

Resolve(sessions) ==
    \E p \in sessions :
        \/ \E id \in CallIds : ApproveCall(p, id, SessionUser(p), SessionComment(p))
        \/ ApproveUpdate(p)
        \/ ApproveHistory(p)
        \/ \E id \in CallIds : RejectCall(p, id, SessionUser(p), SessionComment(p))
        \/ RejectUpdate(p)
        \/ RejectHistory(p)

AgentRequests ==
    \E p \in Callers :
        \/ \E to \in Recipients, error \in BOOLEAN :
              SendRoute(p, "a1", to, NoApprovalId, error)
        \/ \E agent \in Agents, to \in Recipients, approvalId \in CallIds :
              SendRoute(p, agent, to, approvalId, FALSE)
        \/ \E to \in Recipients, error \in BOOLEAN :
              RequestRoute(p, "a1", Text.gmail_modify, to, error)
        \/ CreateInsert(p)
        \/ CreateHistory(p)
        \/ SendEmail(p)
        \/ \E agent \in Agents, id \in CallIds : StatusRoute(p, agent, id)

\* one dashboard session, the agent client, the sweep and the clock
Next ==
    \/ Resolve({"h1"})
    \/ AgentRequests
    \/ \E p \in Callers, id \in CallIds : CancelApproval(p, id)
    \/ SweepSelect
    \/ SweepUpdate
    \/ Tick

Spec == Init /\ [][Next]_vars

\* two dashboard sessions resolving the approvals an agent's requests create,
\* with no other writer of pending_approvals
NextResolve ==
    \/ Resolve(Humans)
    \/ \E p \in Callers :
          \/ RequestRoute(p, "a1", Text.gmail_send, Sample.user_external, FALSE)
          \/ CreateInsert(p)
          \/ CreateHistory(p)

SpecResolve == Init /\ [][NextResolve]_vars

\* the agent client asking for actions that nobody resolves: what the routes
\* do with the answer of evaluateRules
NextRequests ==
    \E p \in Callers :
        \/ \E agent \in Agents, to \in Recipients, error \in BOOLEAN :
              SendRoute(p, agent, to, NoApprovalId, error)
        \/ \E to \in Recipients, error \in BOOLEAN :
              RequestRoute(p, "a1", Text.gmail_modify, to, error)
        \/ CreateInsert(p)
        \/ CreateHistory(p)
        \/ SendEmail(p)

SpecRequests == Init /\ [][NextRequests]_vars

\* the end-to-end scenario: the owner holds the single rule ScenarioRule, agent
\* a1 sends, polls and follows up, the owner resolves in one dashboard session
InitScenario ==
    /\ Init
    /\ approval_rules = <<ScenarioRule>>

NextScenario ==
    \/ Resolve({"h1"})
    \/ \E p \in Callers :
          \/ \E to \in Recipients : SendRoute(p, "a1", to, NoApprovalId, FALSE)
          \/ \E id \in CallIds : SendRoute(p, "a1", Sample.person_gmail, id, FALSE)
          \/ CreateInsert(p)
          \/ CreateHistory(p)
          \/ SendEmail(p)
          \/ \E id \in CallIds : StatusRoute(p, "a1", id)
          \/ \E id \in CallIds : CancelApproval(p, id)

SpecScenario == InitScenario /\ [][NextScenario]_vars

\* an approval held under the one-hour rule HoldAllRule, the clock, the sweep,
\* the owner's approve and the agent's reads
InitExpiry ==
    /\ Init
    /\ approval_rules = <<ScenarioRule, HoldAllRule>>

NextExpiry ==
    \/ \E p \in Callers :
          \/ RequestRoute(p, "a1", Text.gmail_send, Sample.person_gmail, FALSE)
          \/ CreateInsert(p)
          \/ CreateHistory(p)
          \/ \E id \in CallIds : StatusRoute(p, "a1", id)
    \/ \E id \in CallIds : ApproveCall("h1", id, SessionUser("h1"), SessionComment("h1"))
    \/ ApproveUpdate("h1")
    \/ ApproveHistory("h1")
    \/ SweepSelect
    \/ SweepUpdate
    \/ Tick

SpecExpiry == InitExpiry /\ [][NextExpiry]_vars

\* the same, with the sweep invoked again and again: a call that can start
\* does start, and a call that has selected goes on to its update
FairExpiry ==
    /\ InitExpiry
    /\ [][NextExpiry]_vars
    /\ WF_vars(SweepSelect)
    /\ WF_vars(SweepUpdate)

\* the sweep against the owner's approve, with the store answering or failing
NextSweep ==
    \/ \E p \in Callers :
          \/ RequestRoute(p, "a1", Text.gmail_send, Sample.person_gmail, FALSE)
          \/ CreateInsert(p)
          \/ CreateHistory(p)
    \/ \E id \in CallIds : ApproveCall("h1", id, SessionUser("h1"), SessionComment("h1"))
    \/ ApproveUpdate("h1")
    \/ ApproveHistory("h1")
    \/ SweepSelect
    \/ SweepSelectFails
    \/ SweepUpdate
    \/ SweepUpdateFails
    \/ Tick

SpecSweep == InitExpiry /\ [][NextSweep]_vars

\* the agent client asking to send and asking for approval of actions of every
\* kind, under rules with and without a window, while the clock runs and the
\* store answers or fails
ActionTypes ==
    {Text.gmail_send, Text.gmail_modify, Text.gmail_delete, Text.gmail_read,
     Text.document_query, Text.document_download, Text.calendar_create,
     Text.inbox_read_delete}

CreateRecipients ==
    {Sample.user_external, Sample.person_gmail, Sample.me_googlemail, Text.empty}

InitCreate ==
    /\ Init
    /\ approval_rules \in {<<ScenarioRule>>, <<HoldAllRule>>, <<ScenarioRule, HoldAllRule>>}

NextCreate ==
    \/ \E p \in Callers :
          \/ \E to \in CreateRecipients : SendRoute(p, "a1", to, NoApprovalId, FALSE)
          \/ \E actionType \in ActionTypes, to \in CreateRecipients :
                RequestRoute(p, "a1", actionType, to, FALSE)
          \/ CreateInsert(p)
          \/ CreateInsertFails(p)
          \/ CreateHistory(p)
          \/ CreateHistoryFails(p)
          \/ SendEmail(p)
    \/ Tick

SpecCreate == InitCreate /\ [][NextCreate]_vars

\* the follow-up: agent a1 asks to send to external.com or to delete, both
\* held, the owner resolves, and the agent comes back to the send endpoint with
\* the approval's id and a recipient of its own choosing, as often as
\* MaxExecutions allows
MaxExecutions == 2

FollowUpRecipients == {Sample.person_gmail, Sample.me_googlemail}

InitFollowUp ==
    /\ Init
    /\ approval_rules = <<ScenarioRule, HoldAllRule>>

NextFollowUp ==
    \/ Resolve({"h1"})
    \/ \E p \in Callers :
          \/ SendRouteWithin(p, "a1", Sample.user_external, NoApprovalId, FALSE,
                             MaxExecutions)
          \/ RequestRoute(p, "a1", Text.gmail_delete, Sample.user_external, FALSE)
          \/ CreateInsert(p)
          \/ CreateHistory(p)
          \/ \E to \in FollowUpRecipients, id \in CallIds :
                SendRouteWithin(p, "a1", to, id, FALSE, MaxExecutions)
          \/ SendEmail(p)

SpecFollowUp == InitFollowUp /\ [][NextFollowUp]_vars

(***************************************************************************)
(* Statements about the ledger                                             *)
(***************************************************************************)
StoredPending(id) ==
    id \in DOMAIN pending_approvals /\ pending_approvals[id].status = "pending"

\* session p's last approve or reject has returned (200) or thrown (500)
Resolved(p) ==
    /\ pc[p] = "idle"
    /\ call[p] # NotCalled
    /\ call[p].op \in {"approve", "reject"}

\* p approved and q rejected the same approval, both invoked while it was pending
Raced(p, q) ==
    /\ p # q
    /\ Resolved(p) /\ Resolved(q)
    /\ call[p].op = "approve" /\ call[q].op = "reject"
    /\ call[p].id = call[q].id
    /\ call[p].pendingAtCall /\ call[q].pendingAtCall

ResolutionEntries(id) ==
    {i \in DOMAIN approval_history :
        /\ approval_history[i].approval_id = id
        /\ approval_history[i].action \in {"approved", "rejected"}}

C2_TerminalIsFinal ==
    [][\A id \in DOMAIN pending_approvals :
          pending_approvals[id].status # "pending" =>
              /\ pending_approvals'[id].status = pending_approvals[id].status
              /\ pending_approvals'[id].resolved_by = pending_approvals[id].resolved_by
              /\ pending_approvals'[id].resolved_at = pending_approvals[id].resolved_at
              /\ pending_approvals'[id].resolution_comment =
                    pending_approvals[id].resolution_comment]_vars

\* session p's conditional update runs in this step
UpdateStep(p) ==
    /\ pc[p] \in {"approve_update", "reject_update"}
    /\ pc'[p] # pc[p]

\* C3: an approve or reject of an approval whose stored status is not pending,
\* or of an id that names no row, throws (the route answers 500), leaves every
\* pending_approvals row unchanged and appends no history entry.
C3_FailedResolveChangesNothing ==
    [][\A p \in Humans :
          (UpdateStep(p) /\ ~StoredPending(call[p].id)) =>
              /\ pc'[p] = "idle"
              /\ call'[p].http = 500
              /\ pending_approvals' = pending_approvals
              /\ approval_history' = approval_history]_vars

C3_Witness ==
    \E p \in Humans :
        /\ Resolved(p)
        /\ call[p].http = 500
        /\ call[p].id \in DOMAIN pending_approvals
        /\ pending_approvals[call[p].id].status \in {"approved", "rejected"}
        /\ pending_approvals[call[p].id].resolved_by # NullUser
        /\ Len(approval_history) = 2

\* the send handler of caller p decides in this step to send
SendDecided(p) ==
    /\ pc[p] = "idle"
    /\ pc'[p] = "send_email"

\* C4: the Gmail send handler sends only when the request carries no
\* approval_id and evaluateRules answered requiresApproval = false for the
\* request's payload, or when it carries the id of a stored approval of the
\* calling agent whose status is approved.
C4_SendOnlyWhenAllowed ==
    [][/\ \A p \in Callers :
             SendDecided(p) =>
                 LET request == call'[p] IN
                 \/ /\ request.approval_id = NoApprovalId
                    /\ ~evaluateRules(
                          SelectActiveRules(approval_rules, OwnerOf(request.agent),
                                            request.agent),
                          request.locals.evaluated[1].error,
                          [agent_id |-> request.agent, action_type |-> Text.gmail_send,
                           action_payload |-> EmailPayload(request.to),
                           service_provider_id |-> "gmail"]).requiresApproval
                 \/ /\ request.approval_id \in DOMAIN pending_approvals
                    /\ pending_approvals[request.approval_id].agent_id = request.agent
                    /\ pending_approvals[request.approval_id].status = "approved"
       /\ sent' # sent =>
             \E p \in Callers :
                 /\ pc[p] = "send_email"
                 /\ pc'[p] = "idle"
                 /\ sent' = Append(sent, [agent_id |-> call[p].agent,
                                          approval_id |-> call[p].approval_id,
                                          email |-> call[p].locals.emailData])]_vars

C4_Witness ==
    \E i \in DOMAIN sent :
        /\ sent[i].approval_id \in DOMAIN pending_approvals
        /\ sent[i].agent_id = pending_approvals[sent[i].approval_id].agent_id
        /\ pending_approvals[sent[i].approval_id].status = "approved"
        /\ pending_approvals[sent[i].approval_id].resolved_by = "u1"

\* a send of caller p to user@external.com without an approval_id
ExternalSend(p) ==
    /\ call[p] # NotCalled
    /\ call[p].op = "send"
    /\ call[p].approval_id = NoApprovalId
    /\ "to" \in DOMAIN call[p]
    /\ call[p].to = Sample.user_external

NoRuleMatches(agent, actionType, to) ==
    \A i \in DOMAIN approval_rules :
        LET rule == approval_rules[i] IN
        ~ /\ rule.owner_id = OwnerOf(agent)
          /\ rule.is_active
          /\ rule.agent_id \in {NullAgent, agent}
          /\ doesRuleMatch(rule, [agent_id |-> agent, action_type |-> actionType,
                                  action_payload |-> EmailPayload(to),
                                  service_provider_id |-> "gmail"])

\* C7: when the owner has no active rule, or no active rule matches, the
\* evaluation answers requiresApproval = false with matchedRule null, the
\* caller proceeds with the action, and no approval row and no history entry
\* is created.
C7_NoMatchProceeds ==
    [][\A p \in Callers :
          /\ (pc[p] = "idle" /\ call'[p] # call[p] /\ call'[p].op = "send"
              /\ call'[p].approval_id = NoApprovalId
              /\ NoRuleMatches(call'[p].agent, Text.gmail_send, call'[p].to))
             => /\ pc'[p] = "send_email"
                /\ call'[p].locals.evaluated[1].returned =
                      [threw |-> FALSE, requiresApproval |-> FALSE, matchedRule |-> NoRule]
                /\ pending_approvals' = pending_approvals
                /\ approval_history' = approval_history
          /\ (pc[p] = "send_email" /\ pc'[p] # pc[p])
             => /\ Len(sent') = Len(sent) + 1
                /\ call'[p].http = 200
                /\ pending_approvals' = pending_approvals
                /\ approval_history' = approval_history
          /\ (pc[p] = "idle" /\ call'[p] # call[p] /\ call'[p].op = "request"
              /\ \A to \in Recipients :
                    NoRuleMatches(call'[p].agent, Text.gmail_modify, to))
             => /\ pc'[p] = "idle"
                /\ call'[p].http = 200
                /\ ~call'[p].response.requires_approval
                /\ pending_approvals' = pending_approvals
                /\ approval_history' = approval_history]_vars

C7_Witness ==
    /\ approval_rules = <<ScenarioRule>>
    /\ pending_approvals = <<>>
    /\ approval_history = <<>>
    /\ Len(sent) = 1
    /\ sent[1].approval_id = NoApprovalId
    /\ sent[1].email.to = Str(Sample.person_gmail)

(***************************************************************************)
(* Statements about expiry and the audit trail                             *)
(***************************************************************************)
\* caller p's status read / send follow-up of an approval answers in this step
StatusStep(p) ==
    /\ pc[p] = "idle"
    /\ call'[p] # call[p]
    /\ call'[p].op = "status"

FollowUpStep(p) ==
    /\ pc[p] = "idle"
    /\ call'[p] # call[p]
    /\ call'[p].op = "send"
    /\ call'[p].approval_id # NoApprovalId

\* the request in call'[p] names a stored approval of the calling agent
OwnApproval(p) ==
    /\ call'[p].approval_id \in DOMAIN pending_approvals
    /\ pending_approvals[call'[p].approval_id].agent_id = call'[p].agent

AtOrPastExpiry(id) ==
    StoredPending(id) /\ pending_approvals[id].expires_at <= now

PastExpiry(id) ==
    StoredPending(id) /\ pending_approvals[id].expires_at < now

\* C11: expiry is strict: a stored-pending approval whose expires_at is equal
\* to or before the current instant is reported as expired by the status read
\* and is selected by the sweep.
C11_ExpiryIsStrict ==
    [][/\ \A p \in Callers :
             (StatusStep(p) /\ OwnApproval(p) /\ AtOrPastExpiry(call'[p].approval_id)) =>
                 call'[p].response.status = "expired"
       /\ \A id \in DOMAIN pending_approvals :
             AtOrPastExpiry(id) => id \in expireSelect(pending_approvals, now)]_vars

\* C12: a read of a stored-pending approval whose expires_at has passed reports
\* it as expired, through the status endpoint and through the send endpoint's
\* approval_id check alike, and leaves the stored row unchanged.
C12_ReadsTreatOverdueAsExpired ==
    [][\A p \in Callers :
          ((StatusStep(p) \/ FollowUpStep(p)) /\ OwnApproval(p)
              /\ PastExpiry(call'[p].approval_id)) =>
              /\ pc'[p] = "idle"
              /\ StatusStep(p) => call'[p].response.status = "expired"
              /\ FollowUpStep(p) => call'[p].http = 410
              /\ pending_approvals' = pending_approvals]_vars

IsPrefix(s, t) ==
    /\ Len(s) <= Len(t)
    /\ SubSeq(t, 1, Len(s)) = s

HistoryActions(id) ==
    {approval_history[i].action :
        i \in {j \in DOMAIN approval_history : approval_history[j].approval_id = id}}

\* a call that changed approval id's status has its history insert still to run
HistoryInFlight(id) ==
    \/ \E p \in Humans :
          pc[p] \in {"approve_history", "reject_history"} /\ call[p].id = id
    \/ \E p \in Callers :
          pc[p] = "create_history" /\ call[p].locals.approval[1].id = id

AuditComplete ==
    \A id \in DOMAIN pending_approvals :
        ~HistoryInFlight(id) =>
            /\ "created" \in HistoryActions(id)
            /\ pending_approvals[id].status # "pending" =>
                  pending_approvals[id].status \in HistoryActions(id)

\* C13: approval_history is append-only, and once the call that changed an
\* approval's status has finished the history holds an entry for that approval
\* naming the status it moved to (created, approved, rejected, cancelled or
\* expired).
C13_HistoryIsCompleteAudit ==
    [][/\ IsPrefix(approval_history, approval_history')
       /\ AuditComplete']_vars

\* C14: a stored status becomes approved only in the conditional update of an
\* approveApproval call, for that call's user and from pending; the passing of
\* time changes no row, the sweep's update moves rows to expired only, and the
\* status read of an overdue pending approval answers expired.
C14_ApprovedOnlyByApprove ==
    [][/\ \A id \in DOMAIN pending_approvals' :
             LET was == IF id \in DOMAIN pending_approvals
                        THEN pending_approvals[id].status ELSE "none"
                 is == pending_approvals'[id].status
             IN /\ (is = "approved" /\ was # "approved") =>
                       \E p \in Humans :
                           /\ pc[p] = "approve_update"
                           /\ pc'[p] = "approve_history"
                           /\ call[p].id = id
                           /\ was = "pending"
                           /\ pending_approvals'[id].resolved_by = call[p].user
                /\ (sweep.pc = "update" /\ sweep'.pc = "idle" /\ is # was) =>
                       is = "expired"
       /\ now' # now => pending_approvals' = pending_approvals
       /\ \A p \in Callers :
             (StatusStep(p) /\ OwnApproval(p) /\ PastExpiry(call'[p].approval_id)) =>
                 /\ call'[p].response.status = "expired"
                 /\ pending_approvals' = pending_approvals]_vars

\* an approval held under HoldAllRule's one-hour window was swept after the
\* window elapsed
C14_Witness ==
    \E id \in DOMAIN pending_approvals :
        /\ pending_approvals[id].rule_id = <<HoldAllRule.id>>
        /\ pending_approvals[id].expires_at = pending_approvals[id].created_at + 1
        /\ pending_approvals[id].expires_at < now
        /\ pending_approvals[id].status = "expired"
        /\ sweep.pc = "idle"

(***************************************************************************)
(* Statements about cancelling and sweeping                                *)
(***************************************************************************)
\* caller p's cancelApproval runs in this step
CancelStep(p) ==
    /\ pc[p] = "idle"
    /\ call'[p] # call[p] \/ pending_approvals' # pending_approvals
    /\ call'[p] # NotCalled
    /\ call'[p].op = "cancel"
    /\ UNCHANGED <<now, approval_history, sent, pc, sweep>>

\* the step changes at most the status of approval id, to cancelled
OnlyCancels(id) ==
    pending_approvals' =
        [i \in DOMAIN pending_approvals |->
            IF i = id THEN [pending_approvals[i] EXCEPT !.status = "cancelled"]
            ELSE pending_approvals[i]]

\* C26: cancelApproval changes an approval's status to cancelled only if it
\* is stored as pending; called on an approval that is approved, rejected,
\* expired or cancelled, or on none, it changes nothing and the caller is
\* told of the conflict instead of returning as on success.
C26_CancelIsConditional ==
    [][\A p \in Callers :
          CancelStep(p) =>
             LET id == call'[p].approval_id IN
             IF StoredPending(id)
             THEN /\ OnlyCancels(id)
                  /\ call'[p].http = 200
             ELSE /\ pending_approvals' = pending_approvals
                  /\ call'[p].http # 200]_vars

\* the conditional update alone: what cancelApproval writes
CancelWritesOnlyPending ==
    [][\A p \in Callers :
          CancelStep(p) =>
             LET id == call'[p].approval_id IN
             IF StoredPending(id) THEN OnlyCancels(id)
             ELSE pending_approvals' = pending_approvals]_vars

\* a call of expireOldApprovals returns in this step
SweepReturns ==
    /\ sweep' # sweep
    /\ sweep'.pc = "idle"

\* the approvals the step moves from pending to expired
Moved ==
    {i \in DOMAIN pending_approvals :
        /\ pending_approvals[i].status = "pending"
        /\ pending_approvals'[i].status = "expired"}

\* C27: a call of expireOldApprovals changes only approvals that are pending
\* and overdue, and those only to expired; what its select finds is exactly
\* the pending approvals with expires_at in the past; unless the store fails
\* its update moves every one of them that is still pending; and the number
\* it returns is the number of approvals it moved from pending to expired,
\* 0 when there are none or the store failed, also when the owner resolves
\* an approval between the select and the update.
C27_SweepExpiresOverduePending ==
    [][/\ SweepReturns =>
             /\ sweep'.returned = <<Cardinality(Moved)>>
             /\ \A i \in Moved :
                   /\ pending_approvals[i].expires_at < now
                   /\ pending_approvals'[i] = [pending_approvals[i] EXCEPT !.status = "expired"]
             /\ \A i \in DOMAIN pending_approvals \ Moved :
                   pending_approvals'[i] = pending_approvals[i]
             /\ sweep.pc = "update" =>
                   \/ \A i \in sweep.expiredIds : StoredPending(i) => i \in Moved
                   \/ Moved = {}
       /\ (sweep.pc = "idle" /\ sweep'.pc = "update") =>
             /\ pending_approvals' = pending_approvals
             /\ sweep'.expiredIds =
                   {i \in DOMAIN pending_approvals :
                       StoredPending(i) /\ pending_approvals[i].expires_at < now}]_vars

\* C28: with the sweep invoked again and again and the store answering, an
\* approval that is pending with expires_at in the past eventually is not
\* stored as pending.
C28_OverdueEventuallyLeavesPending ==
    \A id \in 1..(MaxApprovals + 1) :
        (StoredPending(id) /\ PastExpiry(id)) ~> (id \in DOMAIN pending_approvals
                                                    /\ ~StoredPending(id))

\* an approval was overdue and the sweep expired it
C28_Witness ==
    /\ sweep = [pc |-> "idle", expiredIds |-> {}, returned |-> <<1>>]
    /\ \E id \in DOMAIN pending_approvals :
          /\ pending_approvals[id].status = "expired"
          /\ pending_approvals[id].expires_at < now

(***************************************************************************)
(* Statements about the answers an agent gets                              *)
(***************************************************************************)
\* request p was answered, and the answer tells the agent to wait
ToldToWait(p) ==
    /\ pc[p] = "idle"
    /\ call[p] # NotCalled
    /\ call[p].op \in {"send", "request"}
    /\ "requires_approval" \in DOMAIN call[p].response
    /\ call[p].response.requires_approval

\* C22: every answer with requires_approval = true, for a fresh approval or
\* for a follow-up carrying the id of a pending one, is a 200 without an
\* error field and carries approval_id, expires_at, priority and
\* action_summary.
C22_WaitAnswersAreComplete ==
    \A p \in Procs :
        ToldToWait(p) =>
            /\ call[p].http = 200
            /\ "error" \notin DOMAIN call[p].response
            /\ {"approval_id", "expires_at", "priority", "action_summary"}
                  \subseteq DOMAIN call[p].response

(***************************************************************************)
(* Statements about createApproval                                         *)
(***************************************************************************)
\* the heuristic, in its order of precedence
ReferencePriority(actionType, recipient) ==
    CASE actionType = Text.gmail_send ->
            IF includes(recipient, Text.at_gmail) \/ includes(recipient, Text.at_googlemail)
            THEN "medium" ELSE "high"
      [] actionType # Text.gmail_send
            /\ (includes(actionType, Text.modify) \/ includes(actionType, Text.delete)) ->
            "high"
      [] actionType # Text.gmail_send
            /\ ~(includes(actionType, Text.modify) \/ includes(actionType, Text.delete))
            /\ (includes(actionType, Text.read) \/ includes(actionType, Text.query)) ->
            "low"
      [] OTHER -> "medium"

\* request p's createApproval inserts its row in this step
InsertedBy(p) ==
    /\ pc[p] = "create_insert"
    /\ pc'[p] = "create_history"

\* request p's route decides in this step whether the action is held
DecidedBy(p) ==
    /\ pc[p] = "idle"
    /\ call'[p] # call[p]
    /\ call'[p].op \in {"send", "request"}
    /\ call'[p].approval_id = NoApprovalId

NewRow == pending_approvals'[Len(pending_approvals')]

WindowOf(p) ==
    LET matchedRule == call[p].locals.evaluated[1].returned.matchedRule IN
    IF matchedRule = NoRule THEN DefaultExpiryHours
    ELSE IF matchedRule[1].auto_approve_after_hours = NoHours THEN DefaultExpiryHours
    ELSE matchedRule[1].auto_approve_after_hours[1]

\* request p's createApproval ends in this step, returning or throwing
CreateReturns(p) ==
    /\ pc[p] = "create_history"
    /\ pc'[p] = "idle"

CreateThrows(p) ==
    /\ pc[p] = "create_insert"
    /\ pc'[p] = "idle"

\* C29: createApproval stores one new row, pending, with null resolver fields,
\* expires_at = creation time + the matched rule's window (24 hours when the
\* rule has none), priority and summary computed from action_type and
\* payload, and by the time it returns it has appended exactly one "created"
\* history entry for that row; when the insert fails the caller gets an
\* error and neither table changes.
C29_CreateStoresRowAndHistory ==
    [][\A p \in Callers :
          /\ InsertedBy(p) =>
                /\ pending_approvals' = Append(pending_approvals, NewRow)
                /\ approval_history' = approval_history
                /\ NewRow.status = "pending"
                /\ NewRow.resolved_by = NullUser
                /\ NewRow.resolved_at = NullTime
                /\ NewRow.resolution_comment = NullComment
                /\ NewRow.created_at = now
                /\ NewRow.expires_at = now + WindowOf(p)
                /\ NewRow.priority =
                      determinePriority(NewRow.action_type, NewRow.action_payload)
                /\ NewRow.action_summary =
                      generateActionSummary(NewRow.action_type, NewRow.action_payload)
          /\ CreateReturns(p) =>
                /\ pending_approvals' = pending_approvals
                /\ Len(approval_history') = Len(approval_history) + 1
                /\ LET entry == approval_history'[Len(approval_history')] IN
                   /\ approval_history' = Append(approval_history, entry)
                   /\ entry.approval_id = call[p].locals.approval[1].id
                   /\ entry.action = "created"
          /\ CreateThrows(p) =>
                /\ call'[p].http = 500
                /\ pending_approvals' = pending_approvals
                /\ approval_history' = approval_history]_vars

\* caller p's send request hands an email to the provider in this step
SendStep(p) ==
    /\ pc[p] = "send_email"
    /\ pc'[p] = "idle"

LastSent(log) == log[Len(log)]

\* C33: the email a follow-up with the id of an approved approval hands to the
\* provider has the to, subject, body, cc and bcc of that approval's stored
\* action_payload, whatever recipient the follow-up request itself names.
C33_FollowUpSendsWhatWasApproved ==
    [][\A p \in Callers :
          (SendStep(p) /\ call[p].approval_id # NoApprovalId) =>
              LET approval == pending_approvals[call[p].approval_id]
                  email == LastSent(sent').email
              IN /\ Len(sent') = Len(sent) + 1
                 /\ approval.status = "approved"
                 /\ LastSent(sent').approval_id = approval.id
                 /\ email.to = getProperty(approval.action_payload, Text.to)
                 /\ email.subject = getProperty(approval.action_payload, Text.subject)
                 /\ email.body = getProperty(approval.action_payload, Text.body)
                 /\ email.cc = getProperty(approval.action_payload, Text.cc)
                 /\ email.bcc = getProperty(approval.action_payload, Text.bcc)]_vars

\* the held mail went to external.com and no follow-up names that recipient:
\* the approved recipient was sent to
C33_Witness ==
    /\ sent # <<>>
    /\ sent[1].approval_id # NoApprovalId
    /\ pending_approvals[sent[1].approval_id].action_type = Text.gmail_send
    /\ sent[1].email.to = Str(Sample.user_external)
    /\ Sample.user_external \notin FollowUpRecipients
    /\ \A p \in Callers : pc[p] = "idle"

\* the emails handed to the provider under approval id
Executions(id) == {i \in DOMAIN sent : sent[i].approval_id = id}

\* C34: an approved approval authorizes at most one execution: over any
\* sequence of send requests carrying the same approval_id, the provider's send
\* is invoked at most once for that approval.
C34_ApprovalExecutesAtMostOnce ==
    \A id \in DOMAIN pending_approvals : Cardinality(Executions(id)) <= 1

\* C37: the send endpoint accepts an approval_id only of an approval whose
\* action_type is gmail.send: no email is sent under an approval created for
\* another action type.
C37_OnlySendApprovalsSend ==
    \A i \in DOMAIN sent :
        sent[i].approval_id # NoApprovalId =>
            pending_approvals[sent[i].approval_id].action_type = Text.gmail_send

\* dashboard session p's approve or reject runs its update in this step
ResolveStep(p) ==
    /\ pc[p] \in {"approve_update", "reject_update"}
    /\ pc'[p] # pc[p]

\* C35: an approval is resolved only by its owner: the approve or reject of an
\* authenticated user who is not the approval's owner_id leaves the approval as
\* it is and appends no history entry.
C35_OnlyOwnerResolves ==
    [][\A p \in Humans :
          (/\ ResolveStep(p)
           /\ call[p].id \in DOMAIN pending_approvals
           /\ pending_approvals[call[p].id].owner_id # call[p].user) =>
              /\ pending_approvals' = pending_approvals
              /\ pc'[p] \notin {"approve_history", "reject_history"}]_vars

\* C36: no approval is approved or rejected after its expiry: an approval
\* resolved by approveApproval or rejectApproval has resolved_at no later than
\* its expires_at.
C36_NoResolutionAfterExpiry ==
    \A id \in DOMAIN pending_approvals :
        pending_approvals[id].status \in {"approved", "rejected"} =>
            pending_approvals[id].resolved_at[1] <= pending_approvals[id].expires_at

(***************************************************************************)
(* lib/auth/agent-auth.ts and the owner's routes on /api/agents/:id.       *)
(* An API key is "ak_live_" followed by random bytes: the bytes are the    *)
(* agent and the generation the key was drawn for.  A bcrypt hash is a     *)
(* salt and the digest of salt and key.                                    *)
(***************************************************************************)
ScanLimit == 100
MaxKeyGeneration == 1

generateApiKey(agentId, generation) == <<"ak_live_", agentId, generation>>

\* a bearer credential no agent was ever given
ForgedKey == <<"ak_live_", 0, 0>>

\* bcrypt.hash(apiKey, SALT_ROUNDS) with the salt it drew
hashApiKey(apiKey, salt) == [salt |-> salt, digest |-> <<salt, apiKey>>]

\* bcrypt.compare(apiKey, hash)
verifyApiKey(apiKey, hash) == hash.digest = <<hash.salt, apiKey>>

\* the row POST /api/agents inserts
AgentRow(id, ownerId) ==
    [id |-> id,
     owner_id |-> ownerId,
     api_key_hash |-> hashApiKey(generateApiKey(id, 0), id),
     is_active |-> TRUE,
     last_seen_at |-> NullTime]

\* SELECT * FROM agents LIMIT 100, with no is_active filter
selectAgentsAnyStatus(table) ==
    SubSeq(table, 1, IF Len(table) < ScanLimit THEN Len(table) ELSE ScanLimit)

\* SELECT * FROM agents WHERE is_active = true LIMIT 100, in storage order
selectActiveAgents(table) ==
    LET active == SelectSeq(table, LAMBDA row : row.is_active) IN
    SubSeq(active, 1, IF Len(active) < ScanLimit THEN Len(active) ELSE ScanLimit)

\* authenticateAgent lines 62-73: the first selected agent whose hash verifies
firstVerified(rows, apiKey) ==
    LET hits == {i \in 1..Len(rows) : verifyApiKey(apiKey, rows[i].api_key_hash)} IN
    IF hits = {} THEN NoRow
    ELSE <<rows[CHOOSE i \in hits : \A j \in hits : i <= j]>>

\* UPDATE agents SET last_seen_at = now WHERE id = agentId
touchAgent(table, agentId, t) ==
    [i \in DOMAIN table |->
        IF table[i].id = agentId THEN [table[i] EXCEPT !.last_seen_at = <<t>>]
        ELSE table[i]]

\* authenticateAgent lines 51-59: the select; no rows is a null
AuthSelect(p, apiKey) ==
    /\ pc[p] = "idle"
    /\ LET rows == selectActiveAgents(agents) IN
       IF Len(rows) = 0
       THEN /\ pc' = pc
            /\ call' = [call EXCEPT ![p] =
                  [op |-> "authenticate", apiKey |-> apiKey, tableAtCall |-> agents,
                   selected |-> rows, returned |-> NoRow]]
       ELSE /\ pc' = [pc EXCEPT ![p] = "auth_verify"]
            /\ call' = [call EXCEPT ![p] =
                  [op |-> "authenticate", apiKey |-> apiKey, tableAtCall |-> agents,
                   selected |-> rows]]
    /\ UNCHANGED <<now, pending_approvals, approval_history, sent, sweep, approval_rules>>
    /\ UNCHANGED restVars

\* authenticateAgent lines 61-75: the loop, the last_seen_at update, the return
AuthVerify(p) ==
    /\ pc[p] = "auth_verify"
    /\ LET agent == firstVerified(call[p].selected, call[p].apiKey) IN
       /\ agents' = IF agent = NoRow THEN agents ELSE touchAgent(agents, agent[1].id, now)
       /\ call' = [call EXCEPT ![p] = call[p] @@ [returned |-> agent]]
    /\ pc' = [pc EXCEPT ![p] = "idle"]
    /\ UNCHANGED <<now, pending_approvals, approval_history, sent, sweep, approval_rules>>
    /\ UNCHANGED <<service_connections, connection_requests>>
    /\ UNCHANGED probeVars

\* PATCH /api/agents/:id with {is_active}: one update filtered by id and owner
PatchAgent(userId, id, isActive) ==
    /\ agents' = [i \in DOMAIN agents |->
          IF agents[i].id = id /\ agents[i].owner_id = userId
          THEN [agents[i] EXCEPT !.is_active = isActive] ELSE agents[i]]
    /\ agents' # agents
    /\ UNCHANGED <<now, pending_approvals, approval_history, sent, pc, call, sweep,
                   approval_rules>>
    /\ UNCHANGED <<service_connections, connection_requests>>
    /\ UNCHANGED probeVars

\* the generation of the key whose hash row holds
keyGeneration(row) == row.api_key_hash.digest[2][3]

\* regenerate-key lines 38-44 leaving the stored hash as it was
regenerateUpdateKeepingHash(table, id, hash) == table

\* UPDATE agents SET api_key_hash = hash WHERE id = id
regenerateUpdate(table, id, hash) ==
    [i \in DOMAIN table |->
        IF table[i].id = id THEN [table[i] EXCEPT !.api_key_hash = hash]
        ELSE table[i]]

\* POST /api/agents/:id/regenerate-key from dashboard session p: the agent is
\* read by id and owner (404 when there is none), then its hash is replaced
\* and the new key is shown once
RegenerateKey(p, id) ==
    /\ pc[p] = "idle"
    /\ LET found == {i \in DOMAIN agents :
                        agents[i].id = id /\ agents[i].owner_id = SessionUser(p)}
       IN
       IF found = {}
       THEN /\ agents' = agents
            /\ call' = [call EXCEPT ![p] =
                  [op |-> "regenerate", id |-> id, outcome |-> "404 Agent not found"]]
       ELSE LET agent == agents[CHOOSE i \in found : TRUE]
                newApiKey == generateApiKey(id, keyGeneration(agent) + 1)
            IN
            /\ keyGeneration(agent) < MaxKeyGeneration
            /\ agents' = regenerateUpdate(agents, id, hashApiKey(newApiKey, id))
            /\ call' = [call EXCEPT ![p] =
                  [op |-> "regenerate", id |-> id, outcome |-> "200",
                   api_key |-> newApiKey]]
    /\ UNCHANGED <<now, pending_approvals, approval_history, sent, pc, sweep,
                   approval_rules>>
    /\ UNCHANGED <<service_connections, connection_requests>>
    /\ UNCHANGED probeVars

(***************************************************************************)
(* The authentication specification: a population of agents of owner u1,   *)
(* the owner's dashboard and one client presenting keys.                   *)
(***************************************************************************)
Populations == {1, 2, ScanLimit + 1}

\* the agents the owner manages and whose keys are presented: the first and
\* the last of the table
Managed == {1, Len(agents)}

PresentedKeys ==
    {ForgedKey} \cup {generateApiKey(id, g) : id \in Managed, g \in 0..MaxKeyGeneration}

InitAuth ==
    /\ LedgerIdle
    /\ RulesIdle
    /\ PatternIdle
    /\ \E n \in Populations : agents = [id \in 1..n |-> AgentRow(id, "u1")]
    /\ service_connections = <<>>
    /\ connection_requests = <<>>

NextAuth ==
    \/ \E p \in Callers :
          \/ \E apiKey \in PresentedKeys : AuthSelect(p, apiKey)
          \/ AuthVerify(p)
    \/ \E id \in Managed, isActive \in BOOLEAN : PatchAgent("u1", id, isActive)
    \/ \E id \in Managed : RegenerateKey("h1", id)

SpecAuth == InitAuth /\ [][NextAuth]_vars

(***************************************************************************)
(* The rotation specification: an agent of u1 and an agent of u2, both     *)
(* dashboard sessions rotating and switching either agent, and one client  *)
(* presenting keys of every generation.                                    *)
(***************************************************************************)
InitRotation ==
    /\ LedgerIdle
    /\ RulesIdle
    /\ PatternIdle
    /\ agents = <<AgentRow(1, "u1"), AgentRow(2, "u2")>>
    /\ service_connections = <<>>
    /\ connection_requests = <<>>

NextRotation ==
    \/ \E p \in Callers :
          \/ \E apiKey \in PresentedKeys : AuthSelect(p, apiKey)
          \/ AuthVerify(p)
    \/ \E p \in Humans, id \in Managed :
          \/ RegenerateKey(p, id)
          \/ \E isActive \in BOOLEAN : PatchAgent(SessionUser(p), id, isActive)

SpecRotation == InitRotation /\ [][NextRotation]_vars

(***************************************************************************)
(* Statements about agent authentication                                   *)
(***************************************************************************)
\* caller p's authenticateAgent call returns in this step
AuthReads(p) ==
    /\ pc[p] = "idle"
    /\ call'[p] # call[p]
    /\ call'[p].op = "authenticate"

AuthReturns(p) ==
    /\ pc'[p] = "idle"
    /\ \/ pc[p] = "auth_verify"
       \/ AuthReads(p)

AgentIds(rows) == {rows[i].id : i \in 1..Len(rows)}

\* C19: authenticateAgent returns an agent only if the agent was active when
\* the call read the table and the presented key verifies against that
\* agent's stored hash; on success it changes only that agent's last_seen_at,
\* on failure it returns null and changes nothing; a call that reads the table
\* after the owner deactivated an agent does not return that agent.
C19_OnlyActiveVerifiedAgents ==
    [][\A p \in Callers :
          /\ AuthReturns(p) =>
                IF call'[p].returned = NoRow
                THEN agents' = agents
                ELSE LET agent == call'[p].returned[1] IN
                     /\ agent.is_active
                     /\ verifyApiKey(call'[p].apiKey, agent.api_key_hash)
                     /\ agent.id \in AgentIds(call'[p].selected)
                     /\ agents' = [i \in DOMAIN agents |->
                           IF agents[i].id = agent.id
                           THEN [agents[i] EXCEPT !.last_seen_at = <<now>>]
                           ELSE agents[i]]
          /\ AuthReads(p) =>
                /\ agents' = agents
                /\ \A i \in DOMAIN agents :
                      ~agents[i].is_active => agents[i].id \notin AgentIds(call'[p].selected)]_vars

\* the owner deactivated an agent and its current key was then refused
C19_Witness ==
    \E p \in Callers, i \in DOMAIN agents :
        /\ pc[p] = "idle"
        /\ call[p] # NotCalled
        /\ call[p].op = "authenticate"
        /\ ~agents[i].is_active
        /\ verifyApiKey(call[p].apiKey, agents[i].api_key_hash)
        /\ i \notin AgentIds(call[p].selected)
        /\ call[p].selected # <<>>
        /\ call[p].returned = NoRow

\* C20: for any number of active agents, a call presenting the current key of
\* an active agent authenticates as that agent (the table being the same from
\* the call's read to its return).
C20_EveryActiveAgentAuthenticates ==
    [][\A p \in Callers, i \in DOMAIN agents :
          (/\ pc[p] = "auth_verify"
           /\ AuthReturns(p)
           /\ call[p].tableAtCall = agents
           /\ agents[i].is_active
           /\ verifyApiKey(call[p].apiKey, agents[i].api_key_hash)) =>
              /\ call'[p].returned # NoRow
              /\ call'[p].returned[1].id = agents[i].id]_vars

\* session p's regenerate-key request is answered in this step
RotateStep(p) ==
    /\ call'[p] # call[p]
    /\ call'[p].op = "regenerate"

AgentById(table, id) == table[CHOOSE i \in DOMAIN table : table[i].id = id]

\* the keys generated for agent id before the one whose hash row holds
PreviousKeys(row) == {generateApiKey(row.id, g) : g \in 0..(keyGeneration(row) - 1)}

\* C21: a regenerate-key answered 200 comes from the agent's owner, leaves the
\* new key's hash stored for that agent, a hash none of the agent's previous
\* keys verifies against, and changes no other row; one asked by another
\* user is answered 404 and changes nothing.  An authentication that reads
\* the table after the store fails with every previous key of the agent,
\* and with the current key it returns that agent (the agent being among the
\* rows the read selects).
C21_RotationHasNoGrace ==
    [][/\ \A p \in Humans :
             RotateStep(p) =>
                LET id == call'[p].id
                    was == AgentById(agents, id)
                    is == AgentById(agents', id)
                IN
                IF was.owner_id = SessionUser(p)
                THEN /\ call'[p].outcome = "200"
                     /\ verifyApiKey(call'[p].api_key, is.api_key_hash)
                     /\ call'[p].api_key \notin PreviousKeys(is)
                     /\ generateApiKey(id, keyGeneration(was)) \in PreviousKeys(is)
                     /\ \A k \in PreviousKeys(is) : ~verifyApiKey(k, is.api_key_hash)
                     /\ is = [was EXCEPT !.api_key_hash = is.api_key_hash]
                     /\ \A i \in DOMAIN agents : agents[i].id # id => agents'[i] = agents[i]
                ELSE /\ call'[p].outcome = "404 Agent not found"
                     /\ agents' = agents
       /\ \A p \in Callers :
             (pc[p] = "auth_verify" /\ AuthReturns(p)) =>
                \A i \in DOMAIN call[p].tableAtCall :
                    LET row == call[p].tableAtCall[i] IN
                    /\ call[p].apiKey \in PreviousKeys(row) =>
                          call'[p].returned = NoRow
                    /\ (/\ call[p].apiKey = generateApiKey(row.id, keyGeneration(row))
                        /\ row.id \in AgentIds(call[p].selected)) =>
                          /\ call'[p].returned # NoRow
                          /\ call'[p].returned[1].id = row.id]_vars

\* the owner rotated an agent's key; afterwards the old key was refused, and
\* the other user's attempt to rotate that agent was answered 404
C21_Witness ==
    /\ call["h1"] # NotCalled
    /\ call["h1"].op = "regenerate"
    /\ call["h1"].id = 1
    /\ call["h1"].outcome = "200"
    /\ call["h2"] # NotCalled
    /\ call["h2"].op = "regenerate"
    /\ call["h2"].id = 1
    /\ call["h2"].outcome = "404 Agent not found"
    /\ pc["g1"] = "idle"
    /\ call["g1"] # NotCalled
    /\ call["g1"].apiKey = generateApiKey(1, 0)
    /\ call["g1"].tableAtCall = agents
    /\ agents[1].is_active
    /\ verifyApiKey(call["h1"].api_key, agents[1].api_key_hash)
    /\ call["g1"].returned = NoRow

(***************************************************************************)
(* lib/services/gmail.ts: getGmailConnection, with the token encryption of *)
(* lib/oauth/gmail-adapter.ts.  Times are in minutes.                      *)
(***************************************************************************)
bufferMinutes == 5

\* the lifetime Google gives an access token, in minutes (expires_in / 60)
ProviderLifetime == 60

NullToken == "null"
NoLifetime == <<>>

\* lib/oauth/encryption: a ciphertext is opaque and decrypts to its plaintext
encrypt(token) == [ciphertext |-> token]
decrypt(encrypted) == encrypted.ciphertext

\* gmailAdapter.encryptTokens
encryptTokens(tokens) ==
    [access_token_encrypted |-> encrypt(tokens.access_token),
     refresh_token_encrypted |->
        IF tokens.refresh_token # NullToken THEN <<encrypt(tokens.refresh_token)>>
        ELSE <<>>]

\* gmailAdapter.decryptTokens
decryptTokens(encrypted) ==
    [access_token |-> decrypt(encrypted.access_token_encrypted),
     refresh_token |->
        IF encrypted.refresh_token_encrypted # <<>>
        THEN decrypt(encrypted.refresh_token_encrypted[1])
        ELSE NullToken]

\* `expires_in ? new Date(Date.now() + expires_in * 1000) : null`
expiryOf(expires_in, t) ==
    IF expires_in = NoLifetime \/ expires_in = <<0>> THEN NullTime
    ELSE <<t + expires_in[1]>>

\* SELECT * FROM service_connections WHERE agent_id, service_provider_id,
\* status = 'active', .single(): one row, or null when none or several match
selectActiveConnection(table, agentId, providerId) ==
    LET hits == {i \in DOMAIN table :
                    /\ table[i].agent_id = agentId
                    /\ table[i].service_provider_id = providerId
                    /\ table[i].status = "active"}
    IN IF Cardinality(hits) = 1 THEN <<table[CHOOSE i \in hits : TRUE]>> ELSE NoRow

\* getGmailConnection lines 37-44: is the refresh attempted
needsRefresh(connection, tokens, t) ==
    /\ connection.token_expires_at # NullTime
    /\ t >= connection.token_expires_at[1] - bufferMinutes
    /\ tokens.refresh_token # NullToken

\* `refreshedTokens.refresh_token` without the fallback
refreshTokenAfterProviderOnly(refreshed, tokens) == refreshed.refresh_token

\* `refreshedTokens.refresh_token || tokens.refresh_token`
refreshTokenAfter(refreshed, tokens) ==
    IF refreshed.refresh_token # NullToken THEN refreshed.refresh_token
    ELSE tokens.refresh_token

\* getGmailConnection lines 45-82 with the catch throwing the error on
afterRefreshRethrowing(locals, response, t) ==
    IF response.ok
    THEN [next |-> "conn_store",
          locals |-> locals @@ [refreshedTokens |-> response.tokens,
                                newExpiresAt |-> expiryOf(response.tokens.expires_in, t)]]
    ELSE [next |-> "throw", locals |-> locals]

\* getGmailConnection lines 45-82: what follows the provider's answer; a
\* failed refresh is caught and falls through to the plain return
afterRefresh(locals, response, t) ==
    IF response.ok
    THEN [next |-> "conn_store",
          locals |-> locals @@ [refreshedTokens |-> response.tokens,
                                newExpiresAt |-> expiryOf(response.tokens.expires_in, t)]]
    ELSE [next |-> "conn_touch", locals |-> locals]

\* getGmailConnection lines 18-44: the select, the decryption, the decision
ConnSelect(p, agentId) ==
    /\ pc[p] = "idle"
    /\ LET connection == selectActiveConnection(service_connections, agentId, "gmail")
           request == [op |-> "connection", agent |-> agentId, refreshCalls |-> 0,
                       refreshFailed |-> FALSE]
       IN IF connection = NoRow
          THEN /\ pc' = pc
               /\ call' = [call EXCEPT ![p] = request @@ [thrown |-> FALSE,
                                                          returned |-> NoRow]]
          ELSE LET tokens == decryptTokens(connection[1]) IN
               /\ pc' = [pc EXCEPT ![p] =
                     IF needsRefresh(connection[1], tokens, now) THEN "conn_refresh"
                     ELSE "conn_touch"]
               /\ call' = [call EXCEPT ![p] =
                     request @@ [locals |-> [connection |-> connection[1],
                                             tokens |-> tokens]]]
    /\ UNCHANGED <<now, pending_approvals, approval_history, sent, sweep, approval_rules>>
    /\ UNCHANGED restVars

\* gmailAdapter.refreshAccessToken answers: the provider's tokens, or an error
ConnRefresh(p, response) ==
    /\ pc[p] = "conn_refresh"
    /\ LET d == afterRefresh(call[p].locals, response, now) IN
       /\ pc' = [pc EXCEPT ![p] = IF d.next = "throw" THEN "idle" ELSE d.next]
       /\ call' = [call EXCEPT ![p] =
             [op |-> call[p].op, agent |-> call[p].agent,
              refreshCalls |-> call[p].refreshCalls + 1,
              refreshFailed |-> ~response.ok] @@
             (IF d.next = "throw" THEN [thrown |-> TRUE, returned |-> NoRow]
              ELSE [locals |-> d.locals])]
    /\ UNCHANGED <<now, pending_approvals, approval_history, sent, sweep, approval_rules>>
    /\ UNCHANGED restVars

\* lines 61-69 writing the access token and its expiry but not the refresh
\* token column
ConnStoreKeepingRefreshToken(p) ==
    /\ pc[p] = "conn_store"
    /\ LET l == call[p].locals
           refresh_token == refreshTokenAfter(l.refreshedTokens, l.tokens)
           encryptedTokens == encryptTokens([access_token |-> l.refreshedTokens.access_token,
                                             refresh_token |-> refresh_token])
       IN /\ service_connections' = [i \in DOMAIN service_connections |->
                IF service_connections[i].id = l.connection.id
                THEN [service_connections[i] EXCEPT
                        !.access_token_encrypted = encryptedTokens.access_token_encrypted,
                        !.token_expires_at = l.newExpiresAt,
                        !.last_used_at = <<now>>]
                ELSE service_connections[i]]
          /\ call' = [call EXCEPT ![p] =
                [op |-> call[p].op, agent |-> call[p].agent,
                 refreshCalls |-> call[p].refreshCalls,
                 refreshFailed |-> call[p].refreshFailed,
                 read |-> l.connection,
                 thrown |-> FALSE,
                 returned |-> <<[id |-> l.connection.id,
                                 access_token |-> l.refreshedTokens.access_token,
                                 refresh_token |-> refresh_token,
                                 token_expires_at |-> l.newExpiresAt]>>]]
    /\ pc' = [pc EXCEPT ![p] = "idle"]
    /\ UNCHANGED <<now, pending_approvals, approval_history, sent, sweep, approval_rules>>
    /\ UNCHANGED <<agents, connection_requests>>
    /\ UNCHANGED probeVars

\* getGmailConnection lines 61-78: store the new pair, return the refreshed token
ConnStore(p) ==
    /\ pc[p] = "conn_store"
    /\ LET l == call[p].locals
           refresh_token == refreshTokenAfter(l.refreshedTokens, l.tokens)
           encryptedTokens == encryptTokens([access_token |-> l.refreshedTokens.access_token,
                                             refresh_token |-> refresh_token])
       IN /\ service_connections' = [i \in DOMAIN service_connections |->
                IF service_connections[i].id = l.connection.id
                THEN [service_connections[i] EXCEPT
                        !.access_token_encrypted = encryptedTokens.access_token_encrypted,
                        !.refresh_token_encrypted = encryptedTokens.refresh_token_encrypted,
                        !.token_expires_at = l.newExpiresAt,
                        !.last_used_at = <<now>>]
                ELSE service_connections[i]]
          /\ call' = [call EXCEPT ![p] =
                [op |-> call[p].op, agent |-> call[p].agent,
                 refreshCalls |-> call[p].refreshCalls,
                 refreshFailed |-> call[p].refreshFailed,
                 read |-> l.connection,
                 thrown |-> FALSE,
                 returned |-> <<[id |-> l.connection.id,
                                 access_token |-> l.refreshedTokens.access_token,
                                 refresh_token |-> refresh_token,
                                 token_expires_at |-> l.newExpiresAt]>>]]
    /\ pc' = [pc EXCEPT ![p] = "idle"]
    /\ UNCHANGED <<now, pending_approvals, approval_history, sent, sweep, approval_rules>>
    /\ UNCHANGED <<agents, connection_requests>>
    /\ UNCHANGED probeVars

\* getGmailConnection lines 87-99: touch last_used_at, return the stored token
ConnTouch(p) ==
    /\ pc[p] = "conn_touch"
    /\ LET l == call[p].locals IN
       /\ service_connections' = [i \in DOMAIN service_connections |->
             IF service_connections[i].id = l.connection.id
             THEN [service_connections[i] EXCEPT !.last_used_at = <<now>>]
             ELSE service_connections[i]]
       /\ call' = [call EXCEPT ![p] =
             [op |-> call[p].op, agent |-> call[p].agent,
              refreshCalls |-> call[p].refreshCalls,
              refreshFailed |-> call[p].refreshFailed,
              read |-> l.connection,
              thrown |-> FALSE,
              returned |-> <<[id |-> l.connection.id,
                              access_token |-> l.tokens.access_token,
                              refresh_token |-> l.tokens.refresh_token,
                              token_expires_at |-> l.connection.token_expires_at]>>]]
    /\ pc' = [pc EXCEPT ![p] = "idle"]
    /\ UNCHANGED <<now, pending_approvals, approval_history, sent, sweep, approval_rules>>
    /\ UNCHANGED <<agents, connection_requests>>
    /\ UNCHANGED probeVars

(***************************************************************************)
(* The credential specification: agent a1's Gmail connection as an earlier *)
(* authorization left it, read while the clock runs and the provider       *)
(* answers refreshes or fails them.                                        *)
(***************************************************************************)
\* the row the OAuth callback inserts (callback/route.ts lines 93-107)
ConnectionRow(id, agentId, userId, tokens, token_expires_at) ==
    [id |-> id,
     agent_id |-> agentId,
     service_provider_id |-> "gmail",
     user_id |-> userId,
     access_token_encrypted |-> encryptTokens(tokens).access_token_encrypted,
     refresh_token_encrypted |-> encryptTokens(tokens).refresh_token_encrypted,
     token_expires_at |-> token_expires_at,
     status |-> "active",
     last_used_at |-> NullTime]

\* the stored token's expiry when the model starts: none, about to pass, or
\* around the refresh buffer
StoredExpiries ==
    {NullTime} \cup {<<t>> : t \in {1} \cup (bufferMinutes - 1)..(bufferMinutes + MaxTime)}

\* the answers of https://oauth2.googleapis.com/token to a refresh
RefreshResponses ==
    {[ok |-> FALSE]} \cup
    {[ok |-> TRUE, tokens |-> [access_token |-> "at1", refresh_token |-> r, expires_in |-> e]] :
        r \in {NullToken, "rt1"}, e \in {NoLifetime, <<ProviderLifetime>>}}

InitCredential ==
    /\ LedgerIdle
    /\ RulesIdle
    /\ PatternIdle
    /\ agents = <<>>
    /\ connection_requests = <<>>
    /\ \/ service_connections = <<>>
       \/ \E r \in {NullToken, "rt0"}, e \in StoredExpiries :
             service_connections = <<ConnectionRow(1, "a1", "u1",
                   [access_token |-> "at0", refresh_token |-> r], e)>>

NextCredential ==
    \/ \E p \in Callers :
          \/ \E agentId \in Agents : ConnSelect(p, agentId)
          \/ \E response \in RefreshResponses : ConnRefresh(p, response)
          \/ ConnStore(p)
          \/ ConnTouch(p)
    \/ Tick

SpecCredential == InitCredential /\ [][NextCredential]_vars

(***************************************************************************)
(* Statements about the credential store                                   *)
(***************************************************************************)
\* caller p's getGmailConnection reads a connection in this step
ConnReads(p) ==
    /\ pc[p] = "idle"
    /\ pc'[p] \in {"conn_refresh", "conn_touch"}

ConnectionIn(table, id) ==
    table[CHOOSE i \in DOMAIN table : table[i].id = id]

StoredConnection(id) == ConnectionIn(service_connections, id)

StoredTokens(row) ==
    [access_token_encrypted |-> row.access_token_encrypted,
     refresh_token_encrypted |-> row.refresh_token_encrypted]

\* C15: a read of a connection whose token_expires_at is at most 5 minutes
\* after now and that holds a refresh token calls the provider refresh before
\* returning; after a successful refresh the returned access token is the
\* provider's new one, the stored encrypted pair is the encryption of the new
\* pair and the stored token_expires_at is strictly later than before; a read
\* of a connection expiring more than 5 minutes from now attempts no refresh
\* and leaves the stored tokens unchanged.
C15_RefreshNearExpiry ==
    [][\A p \in Callers :
          /\ ConnReads(p) =>
                LET connection == call'[p].locals.connection
                    tokens == call'[p].locals.tokens
                IN /\ connection.token_expires_at # NullTime =>
                      /\ (/\ connection.token_expires_at[1] <= now + bufferMinutes
                          /\ tokens.refresh_token # NullToken) => pc'[p] = "conn_refresh"
                      /\ connection.token_expires_at[1] > now + bufferMinutes =>
                            pc'[p] = "conn_touch"
                   /\ service_connections' = service_connections
          /\ (pc[p] = "conn_store" /\ pc'[p] = "idle") =>
                LET l == call[p].locals
                    before == StoredConnection(l.connection.id)
                    after == ConnectionIn(service_connections', l.connection.id)
                IN /\ call'[p].returned # NoRow
                   /\ call'[p].returned[1].access_token = l.refreshedTokens.access_token
                   /\ decryptTokens(StoredTokens(after)).access_token =
                         l.refreshedTokens.access_token
                   /\ decryptTokens(StoredTokens(after)).refresh_token =
                         refreshTokenAfter(l.refreshedTokens, l.tokens)
                   /\ after.token_expires_at # NullTime
                   /\ after.token_expires_at[1] > before.token_expires_at[1]
          /\ (pc[p] = "conn_touch" /\ pc'[p] = "idle" /\ call[p].refreshCalls = 0) =>
                LET id == call[p].locals.connection.id IN
                /\ StoredTokens(ConnectionIn(service_connections', id)) = StoredTokens(StoredConnection(id))
                /\ ConnectionIn(service_connections', id).token_expires_at =
                      StoredConnection(id).token_expires_at]_vars

\* C16: when the provider refresh fails, getGmailConnection does not throw: it
\* returns the connection with the access token it read, leaves the stored
\* encrypted pair and token_expires_at unchanged, and has called the provider
\* refresh exactly once.
C16_RefreshFailureDegrades ==
    [][\A p \in Callers :
          /\ (pc[p] = "conn_refresh" /\ pc'[p] \notin {"conn_refresh", "conn_store"}) =>
                /\ pc'[p] = "conn_touch"
                /\ call'[p].refreshFailed
                /\ service_connections' = service_connections
          /\ (pc[p] = "conn_touch" /\ pc'[p] # "conn_touch" /\ call[p].refreshFailed) =>
                LET l == call[p].locals
                    id == l.connection.id
                IN /\ pc'[p] = "idle"
                   /\ ~call'[p].thrown
                   /\ call'[p].returned # NoRow
                   /\ call'[p].returned[1].access_token =
                         decrypt(l.connection.access_token_encrypted)
                   /\ call'[p].returned[1].token_expires_at = l.connection.token_expires_at
                   /\ call'[p].refreshCalls = 1
                   /\ StoredTokens(ConnectionIn(service_connections', id)) = StoredTokens(StoredConnection(id))
                   /\ ConnectionIn(service_connections', id).token_expires_at =
                         StoredConnection(id).token_expires_at]_vars

\* a call returned the stored token of a connection already past its expiry
\* after its one refresh attempt failed
C16_Witness ==
    \E p \in Callers :
        /\ pc[p] = "idle"
        /\ call[p] # NotCalled
        /\ call[p].op = "connection"
        /\ call[p].refreshFailed
        /\ call[p].refreshCalls = 1
        /\ ~call[p].thrown
        /\ call[p].returned # NoRow
        /\ call[p].returned[1].access_token = "at0"
        /\ call[p].returned[1].token_expires_at # NullTime
        /\ call[p].returned[1].token_expires_at[1] < now
        /\ StoredConnection(call[p].returned[1].id).access_token_encrypted = encrypt("at0")

(***************************************************************************)
(* The concurrent-refresh specification: two requests of agent a1 run      *)
(* getGmailConnection on the same connection, their steps interleaved, and *)
(* the provider gives each refresh its own answer.                         *)
(***************************************************************************)
\* the two request slots that read the connection
ConcurrentCalls == {"g1", "h1"}

\* the provider's answers: two access tokens, a rotated refresh token or none
RotatingResponses ==
    {[ok |-> FALSE]} \cup
    {[ok |-> TRUE, tokens |-> [access_token |-> a, refresh_token |-> r, expires_in |-> e]] :
        a \in {"at1", "at2"}, r \in {NullToken, "rt1", "rt2"},
        e \in {NoLifetime, <<ProviderLifetime>>}}

InitConcurrent ==
    /\ LedgerIdle
    /\ RulesIdle
    /\ PatternIdle
    /\ agents = <<>>
    /\ connection_requests = <<>>
    /\ \E e \in StoredExpiries \ {NullTime} :
          service_connections = <<ConnectionRow(1, "a1", "u1",
                [access_token |-> "at0", refresh_token |-> "rt0"], e)>>

NextConcurrent ==
    \/ \E p \in ConcurrentCalls :
          \/ ConnSelect(p, "a1")
          \/ \E response \in RotatingResponses : ConnRefresh(p, response)
          \/ ConnStore(p)
          \/ ConnTouch(p)
    \/ Tick

SpecConcurrent == InitConcurrent /\ [][NextConcurrent]_vars

\* the call in slot p has finished and it refreshed and stored
Refreshed(p) ==
    /\ pc[p] = "idle"
    /\ call[p] # NotCalled
    /\ call[p].op = "connection"
    /\ call[p].refreshCalls = 1
    /\ ~call[p].refreshFailed

\* the access token, refresh token and expiry a row holds
StoredTriple(row) ==
    [access_token |-> decryptTokens(row).access_token,
     refresh_token |-> decryptTokens(row).refresh_token,
     token_expires_at |-> row.token_expires_at]

\* the three values the finished call in slot p wrote (lines 63-66, the values
\* it returns at lines 72-78)
WrittenTriple(p) ==
    [access_token |-> call[p].returned[1].access_token,
     refresh_token |-> call[p].returned[1].refresh_token,
     token_expires_at |-> call[p].returned[1].token_expires_at]

\* C32: when two getGmailConnection calls on the same near-expiry connection
\* have both refreshed and finished, neither has thrown or returned null and
\* the stored access token, refresh token and token_expires_at are together
\* the three values one of the two calls wrote.
C32_LastWriterWins ==
    (\A p \in ConcurrentCalls : Refreshed(p)) =>
        /\ \A p \in ConcurrentCalls : ~call[p].thrown /\ call[p].returned # NoRow
        /\ \E p \in ConcurrentCalls :
              StoredTriple(StoredConnection(1)) = WrittenTriple(p)

\* both calls read the connection before either wrote, the provider rotated the
\* refresh token for one and returned none to the other, and what is stored is
\* one call's three values and not the other's
C32_Witness ==
    /\ \A p \in ConcurrentCalls :
          /\ Refreshed(p)
          /\ decrypt(call[p].read.access_token_encrypted) = "at0"
    /\ WrittenTriple("g1").access_token = "at1"
    /\ WrittenTriple("g1").refresh_token = "rt1"
    /\ WrittenTriple("h1").access_token = "at2"
    /\ WrittenTriple("h1").refresh_token = "rt0"
    /\ WrittenTriple("g1").token_expires_at # WrittenTriple("h1").token_expires_at
    /\ StoredTriple(StoredConnection(1)) = WrittenTriple("h1")

StoredRefreshToken(table) == decryptTokens(ConnectionIn(table, 1)).refresh_token

\* C38: a connection that holds a refresh token keeps one through every
\* refresh: a successful refresh stores the refresh token the provider returned
\* to it, or the one the call read when the provider returned none, and a
\* failed refresh and a plain read leave the stored refresh token as it is.
C38_RefreshKeepsARefreshToken ==
    [][/\ StoredRefreshToken(service_connections') # NullToken
       /\ \A p \in ConcurrentCalls :
             /\ (pc[p] = "conn_store" /\ pc'[p] = "idle") =>
                   LET l == call[p].locals IN
                   StoredRefreshToken(service_connections') =
                      IF l.refreshedTokens.refresh_token # NullToken
                      THEN l.refreshedTokens.refresh_token
                      ELSE decrypt(l.connection.refresh_token_encrypted[1])
             /\ (pc[p] \in {"conn_refresh", "conn_touch"} /\ pc'[p] # pc[p]) =>
                   StoredRefreshToken(service_connections') =
                      StoredRefreshToken(service_connections)]_vars

\* one call's refresh failed, the other's succeeded with no refresh token in
\* the provider's answer, and the connection still holds the one it had
C38_Witness ==
    /\ Refreshed("g1")
    /\ WrittenTriple("g1").access_token = "at1"
    /\ WrittenTriple("g1").refresh_token = "rt0"
    /\ pc["h1"] = "idle"
    /\ call["h1"] # NotCalled
    /\ call["h1"].refreshFailed
    /\ call["h1"].returned # NoRow
    /\ StoredRefreshToken(service_connections) = "rt0"
    /\ StoredConnection(1).access_token_encrypted = encrypt("at1")

\* C38 as stated: the stored refresh token is the most recent one the provider
\* returned: once the provider has returned a new refresh token to one of two
\* finished refreshes, the connection no longer holds the one it started with.
C38_StoredIsMostRecentFromProvider ==
    (/\ \A p \in ConcurrentCalls : Refreshed(p)
     /\ \E p \in ConcurrentCalls : WrittenTriple(p).refresh_token # "rt0") =>
        StoredRefreshToken(service_connections) # "rt0"

(***************************************************************************)
(* POST /api/oauth/initiate, GET /api/oauth/callback and                   *)
(* DELETE /api/oauth/request/:requestId.  Times are in minutes.            *)
(***************************************************************************)
MaxRequests == 2
RequestLifetime == 15

\* crypto.randomBytes(32).toString('hex'): a token of its own for every request
stateToken(requestId) == <<"state", requestId>>

\* the row POST /api/oauth/initiate inserts
RequestRow(id, agentId, t) ==
    [id |-> id,
     agent_id |-> agentId,
     service_provider_id |-> "gmail",
     user_id |-> OwnerOf(agentId),
     state |-> stateToken(id),
     status |-> "pending",
     expires_at |-> t + RequestLifetime]

\* SELECT * FROM connection_requests WHERE state = ?, with no status filter
selectRequestAnyStatus(table, state) ==
    LET hits == {i \in DOMAIN table : table[i].state = state}
    IN IF Cardinality(hits) = 1 THEN <<table[CHOOSE i \in hits : TRUE]>> ELSE NoRow

\* SELECT * FROM connection_requests WHERE state = ? AND status = 'pending', .single()
selectPendingRequest(table, state) ==
    LET hits == {i \in DOMAIN table : table[i].state = state /\ table[i].status = "pending"}
    IN IF Cardinality(hits) = 1 THEN <<table[CHOOSE i \in hits : TRUE]>> ELSE NoRow

\* INSERT INTO service_connections on a table without the UNIQUE constraint
insertConnectionWithoutUnique(table, row) ==
    [error |-> FALSE, table |-> Append(table, row)]

\* INSERT INTO service_connections under UNIQUE(agent_id, service_provider_id,
\* user_id): the statement's error, and the table after it
insertConnection(table, row) ==
    IF \E i \in DOMAIN table :
          /\ table[i].agent_id = row.agent_id
          /\ table[i].service_provider_id = row.service_provider_id
          /\ table[i].user_id = row.user_id
    THEN [error |-> TRUE, table |-> table]
    ELSE [error |-> FALSE, table |-> Append(table, row)]

\* UPDATE connection_requests SET status = ? WHERE id = ? [AND user_id = ?]
setRequestStatus(table, id, users, status) ==
    [i \in DOMAIN table |->
        IF table[i].id = id /\ table[i].user_id \in users
        THEN [table[i] EXCEPT !.status = status] ELSE table[i]]

\* the handler of p answers: what it was asked, and the HTTP status or redirect
Answer(p, request, outcome) ==
    /\ pc' = [pc EXCEPT ![p] = "idle"]
    /\ call' = [call EXCEPT ![p] =
          IF request.op = "callback"
          THEN [op |-> request.op, state |-> request.state, outcome |-> outcome]
          ELSE [op |-> request.op, agent |-> request.agent, outcome |-> outcome]]

\* initiate lines 48-62: an active connection already exists -> 409
InitiateCheck(p, agentId) ==
    /\ pc[p] = "idle"
    /\ LET request == [op |-> "initiate", agent |-> agentId]
           existingConnection == selectActiveConnection(service_connections, agentId, "gmail")
       IN IF existingConnection # NoRow
          THEN Answer(p, request, "409 Connection already exists")
          ELSE /\ Len(connection_requests) +
                     Cardinality({q \in Procs : pc[q] = "initiate_insert"}) < MaxRequests
               /\ pc' = [pc EXCEPT ![p] = "initiate_insert"]
               /\ call' = [call EXCEPT ![p] = request]
    /\ UNCHANGED <<now, pending_approvals, approval_history, sent, sweep, approval_rules>>
    /\ UNCHANGED restVars

\* initiate lines 64-115: the connection request is inserted
InitiateInsert(p) ==
    /\ pc[p] = "initiate_insert"
    /\ LET row == RequestRow(Len(connection_requests) + 1, call[p].agent, now) IN
       /\ connection_requests' = Append(connection_requests, row)
       /\ Answer(p, call[p], "200")
    /\ UNCHANGED <<now, pending_approvals, approval_history, sent, sweep, approval_rules>>
    /\ UNCHANGED <<agents, service_connections>>
    /\ UNCHANGED probeVars

\* callback lines 32-56: find the pending request of the state, test its expiry
CallbackSelect(p, state) ==
    /\ pc[p] = "idle"
    /\ LET connectionRequest == selectPendingRequest(connection_requests, state)
           request == [op |-> "callback", state |-> state]
       IN IF connectionRequest = NoRow
          THEN Answer(p, request, "Invalid or expired request")
          ELSE /\ pc' = [pc EXCEPT ![p] =
                     IF connectionRequest[1].expires_at < now THEN "callback_expire"
                     ELSE "callback_exchange"]
               /\ call' = [call EXCEPT ![p] =
                     request @@ [connectionRequest |-> connectionRequest[1]]]
    /\ UNCHANGED <<now, pending_approvals, approval_history, sent, sweep, approval_rules>>
    /\ UNCHANGED restVars

\* callback lines 47-55: the overdue request is marked expired
CallbackExpire(p) ==
    /\ pc[p] = "callback_expire"
    /\ connection_requests' = setRequestStatus(connection_requests,
          call[p].connectionRequest.id, {"u1", "u2"}, "expired")
    /\ Answer(p, call[p], "Request expired")
    /\ UNCHANGED <<now, pending_approvals, approval_history, sent, sweep, approval_rules>>
    /\ UNCHANGED <<agents, service_connections>>
    /\ UNCHANGED probeVars

\* callback lines 71-90: the provider exchanges the code, or the call throws
CallbackExchange(p, response) ==
    /\ pc[p] = "callback_exchange"
    /\ IF response.ok
       THEN /\ pc' = [pc EXCEPT ![p] = "callback_insert"]
            /\ call' = [call EXCEPT ![p] = call[p] @@
                  [tokens |-> response.tokens,
                   tokenExpiresAt |-> expiryOf(response.tokens.expires_in, now)]]
       ELSE Answer(p, call[p], "Internal server error")
    /\ UNCHANGED <<now, pending_approvals, approval_history, sent, sweep, approval_rules>>
    /\ UNCHANGED restVars

\* callback lines 92-116: the connection is inserted, or the insert fails
CallbackInsert(p) ==
    /\ pc[p] = "callback_insert"
    /\ LET r == call[p].connectionRequest
           \* via_state is not a column: it records which redirect inserted the row
           inserted == insertConnection(service_connections,
                          ConnectionRow(Len(service_connections) + 1, r.agent_id, r.user_id,
                                        call[p].tokens, call[p].tokenExpiresAt)
                             @@ [via_state |-> call[p].state])
       IN /\ service_connections' = inserted.table
          /\ IF inserted.error
             THEN Answer(p, call[p], "Failed to create connection")
             ELSE /\ pc' = [pc EXCEPT ![p] = "callback_complete"]
                  /\ call' = call
    /\ UNCHANGED <<now, pending_approvals, approval_history, sent, sweep, approval_rules>>
    /\ UNCHANGED <<agents, connection_requests>>
    /\ UNCHANGED probeVars

\* callback lines 118-130: the request is marked completed
CallbackComplete(p) ==
    /\ pc[p] = "callback_complete"
    /\ connection_requests' = setRequestStatus(connection_requests,
          call[p].connectionRequest.id, {"u1", "u2"}, "completed")
    /\ Answer(p, call[p], "oauth_success")
    /\ UNCHANGED <<now, pending_approvals, approval_history, sent, sweep, approval_rules>>
    /\ UNCHANGED <<agents, service_connections>>
    /\ UNCHANGED probeVars

\* DELETE /api/oauth/request/:requestId by the signed-in user
RejectRequest(userId, id) ==
    /\ connection_requests' = setRequestStatus(connection_requests, id, {userId}, "rejected")
    /\ connection_requests' # connection_requests
    /\ UNCHANGED <<now, pending_approvals, approval_history, sent, pc, call, sweep,
                   approval_rules>>
    /\ UNCHANGED <<agents, service_connections>>
    /\ UNCHANGED probeVars

\* the instants the clock is read at: minute 0, the minute a request made then
\* expires at, and the minute after
Instants == {0, RequestLifetime, RequestLifetime + 1}

\* time passes, to a later one of these instants
Elapse(t) ==
    /\ t > now
    /\ now' = t
    /\ UNCHANGED <<pending_approvals, approval_history, sent, pc, call, sweep, approval_rules>>
    /\ UNCHANGED restVars

(***************************************************************************)
(* The authorization specification: agent a1 initiates, the owner's two    *)
(* browser tabs follow the provider's redirect or reject the request.      *)
(***************************************************************************)
\* the answers of https://oauth2.googleapis.com/token to a code
ExchangeResponses ==
    {[ok |-> FALSE],
     [ok |-> TRUE, tokens |-> [access_token |-> "at0", refresh_token |-> "rt0",
                               expires_in |-> <<ProviderLifetime>>]]}

\* the state tokens a redirect can carry: every request's, and one made up
CallbackStates == {stateToken(id) : id \in 1..(Len(connection_requests) + 1)}

InitOAuth ==
    /\ LedgerIdle
    /\ RulesIdle
    /\ PatternIdle
    /\ StoreEmpty

NextOAuth ==
    \/ \E p \in Callers : InitiateCheck(p, "a1") \/ InitiateInsert(p)
    \/ \E p \in Humans :
          \/ \E state \in CallbackStates : CallbackSelect(p, state)
          \/ CallbackExpire(p)
          \/ \E response \in ExchangeResponses : CallbackExchange(p, response)
          \/ CallbackInsert(p)
          \/ CallbackComplete(p)
    \/ \E id \in DOMAIN connection_requests : RejectRequest("u1", id)
    \/ \E t \in Instants : Elapse(t)

SpecOAuth == InitOAuth /\ [][NextOAuth]_vars

(***************************************************************************)
(* Statements about connections and connection requests                    *)
(***************************************************************************)
SameTriple(a, b) ==
    /\ a.agent_id = b.agent_id
    /\ a.service_provider_id = b.service_provider_id
    /\ a.user_id = b.user_id

OneActivePerTriple(table) ==
    \A i \in DOMAIN table, j \in DOMAIN table :
        (/\ table[i].status = "active"
         /\ table[j].status = "active"
         /\ SameTriple(table[i], table[j])) => i = j

\* p's callback runs its insert / p's initiate runs its check in this step
InsertStep(p) ==
    /\ pc[p] = "callback_insert"
    /\ pc'[p] # "callback_insert"

InitiateStep(p) ==
    /\ pc[p] = "idle"
    /\ call'[p] # call[p]
    /\ call'[p].op = "initiate"

\* C17: there is at most one active service connection per (agent, provider,
\* owner); a callback whose insert would add a second one is refused and
\* leaves service_connections unchanged; an initiate of an agent that has an
\* active connection to the provider is answered 409 and creates no
\* connection request.
C17_OneActiveConnection ==
    [][/\ OneActivePerTriple(service_connections')
       /\ \A p \in Humans :
             (/\ InsertStep(p)
              /\ \E i \in DOMAIN service_connections :
                    /\ service_connections[i].status = "active"
                    /\ SameTriple(service_connections[i], call[p].connectionRequest)) =>
                 /\ call'[p].outcome = "Failed to create connection"
                 /\ service_connections' = service_connections
       /\ \A p \in Callers :
             (/\ InitiateStep(p)
              /\ \E i \in DOMAIN service_connections :
                    /\ service_connections[i].status = "active"
                    /\ service_connections[i].agent_id = call'[p].agent
                    /\ service_connections[i].service_provider_id = "gmail") =>
                 /\ pc'[p] = "idle"
                 /\ call'[p].outcome = "409 Connection already exists"
                 /\ connection_requests' = connection_requests]_vars

\* the redirect of a second request was refused while the first request's
\* connection stands, and a later initiate was answered 409
C17_Witness ==
    /\ Len(service_connections) = 1
    /\ service_connections[1].status = "active"
    /\ service_connections[1].via_state = stateToken(1)
    /\ Len(connection_requests) = 2
    /\ connection_requests[2].status = "pending"
    /\ \E p \in Humans :
          /\ pc[p] = "idle"
          /\ call[p] # NotCalled
          /\ call[p].state = stateToken(2)
          /\ call[p].outcome = "Failed to create connection"
    /\ \E p \in Callers :
          /\ pc[p] = "idle"
          /\ call[p] # NotCalled
          /\ call[p].outcome = "409 Connection already exists"

\* p's callback runs its select in this step
SelectStep(p) ==
    /\ pc[p] = "idle"
    /\ call'[p] # call[p]
    /\ call'[p].op = "callback"

\* a stored request carries the state, is pending and is not past its expiry
Consumable(state) ==
    \E i \in DOMAIN connection_requests :
        /\ connection_requests[i].state = state
        /\ connection_requests[i].status = "pending"
        /\ connection_requests[i].expires_at >= now

ConnectionsVia(table, state) ==
    {i \in DOMAIN table : table[i].via_state = state}

\* C18: a callback goes on to the exchange and the insert only if, when it
\* reads, a request with the presented state exists, is pending and is not
\* past its expiry; a callback for an unknown, rejected, expired or completed
\* state is answered at once and creates no connection; only a callback's
\* insert adds a service connection, the callback then marks its request
\* completed; and whatever the interleaving, at most one service connection
\* is created through one state token.
C18_RequestConsumedOnce ==
    [][/\ \A p \in Humans :
             /\ SelectStep(p) =>
                   /\ service_connections' = service_connections
                   /\ pc'[p] = "callback_exchange" <=> Consumable(call'[p].state)
                   /\ pc'[p] \in {"idle", "callback_exchange", "callback_expire"}
             /\ InsertStep(p) =>
                   \/ /\ pc'[p] = "callback_complete"
                      /\ Len(service_connections') = Len(service_connections) + 1
                   \/ /\ pc'[p] = "idle"
                      /\ service_connections' = service_connections
             /\ (pc[p] = "callback_complete" /\ pc'[p] = "idle") =>
                   \A i \in DOMAIN connection_requests :
                       connection_requests[i].state = call[p].state =>
                           connection_requests'[i].status = "completed"
       /\ Len(service_connections') # Len(service_connections) =>
             \E p \in Humans : InsertStep(p)
       /\ \A id \in 1..(MaxRequests + 1) :
             Cardinality(ConnectionsVia(service_connections', stateToken(id))) <= 1]_vars

\* two redirects carrying one state token both read the request as pending:
\* one created the connection and completed the request, the other was refused
C18_Witness ==
    \E p \in Humans, q \in Humans :
        /\ p # q
        /\ pc[p] = "idle" /\ pc[q] = "idle"
        /\ call[p] # NotCalled /\ call[q] # NotCalled
        /\ call[p].state = call[q].state
        /\ call[p].outcome = "oauth_success"
        /\ call[q].outcome = "Failed to create connection"
        /\ Cardinality(ConnectionsVia(service_connections, call[p].state)) = 1
        /\ \E i \in DOMAIN connection_requests :
              /\ connection_requests[i].state = call[p].state
              /\ connection_requests[i].status = "completed"

\* C39: the status of a connection request leaves pending at most once: a
\* request that is completed, rejected or expired keeps that status under every
\* later deny, callback and clock step.
C39_RequestStatusIsFinal ==
    [][\A i \in DOMAIN connection_requests :
          connection_requests[i].status # "pending" =>
              connection_requests'[i].status = connection_requests[i].status]_vars

====
